---- MODULE Spec2Model ----
(***************************************************************************)
(* Model of the ofair-make-integration edge functions: API-key lifecycle   *)
(* (create-api-key, revoke-api-key, validateApiKey), the three-window rate *)
(* limiter (checkRateLimit) and the submit-lead-api gateway with its audit *)
(* log (finalizeRequest).  Every await on the store and every read of the  *)
(* wall clock is one step, so that concurrent handlers interleave exactly  *)
(* where the code can be suspended.                                        *)
(***************************************************************************)
EXTENDS Integers, Sequences, FiniteSets, TLC

\* ------------------------------------------------------------------ bounds
NumProcs == 2          \* concurrent handler invocations
NumTenants == 2        \* professionals
MaxCalls == 4          \* calls started in one behaviour
MaxCeil == 2           \* largest small ceiling a policy row carries
MaxRequests == 2       \* requests the gateway receives in one behaviour

\* --------------------------------------------------------- program constants
MinuteMs == 60000
HourMs == 3600000
DayMs == 86400000
MsPerSecond == 1000
MaxActiveKeys == 5
KeyBodyLen == 32

DEFAULT_LIMITS ==
  [requests_per_minute |-> 60, requests_per_hour |-> 1000, requests_per_day |-> 10000]

Procs == 1..NumProcs

\* The instants the wall clock may show (ms); they straddle the minute, hour
\* and day boundaries.  Time 0 is aligned to all three granularities.
Instants ==
  {0, 500, MinuteMs - 1, MinuteMs, HourMs - 1, HourMs, DayMs}

NoTime == 0 - 1

VARIABLES
  now,          \* the wall clock, ms
  rate_config,  \* table api_rate_limit_config
  tracking,     \* table api_rate_limit_tracking
  pc,           \* per invocation: the await / clock read it is at
  rl,           \* per invocation: the locals of checkRateLimit
  callsLeft,    \* calls that may still start
  serial,       \* TRUE: one invocation at a time (all calls are made by process 1)
  horizon,      \* the last instant of the behaviour
  configured,   \* the deployment has SUPABASE_URL and SUPABASE_SERVICE_ROLE_KEY
  admitted,     \* history: minute window -> number of Allowed decisions
  evaluated,    \* history: minute window -> number of finished decisions
  api_keys,     \* table api_keys, a row's id is its index
  km,           \* per invocation: the locals of create-api-key / revoke-api-key
  va,           \* per invocation: the locals of validateApiKey
  nextSecret,   \* the random part the next generated key gets
  story,        \* history, per tenant: quota refusal seen, then a revocation
  gw,           \* per invocation: the locals of the submit-lead-api handler
  logs,         \* table api_request_logs
  nextRequestId, \* the request id crypto.randomUUID() gives next
  san           \* per invocation: a call of sanitizeRequestBody and its caller's object

envVars == <<serial, horizon, configured>>
histVars == <<admitted, evaluated>>
rateVars == <<rate_config, tracking, rl, histVars>>
keyVars == <<api_keys, km, va, nextSecret, story>>
gwVars == <<gw, logs, nextRequestId, san>>
vars == <<now, rate_config, tracking, pc, rl, callsLeft, envVars, histVars, keyVars, gwVars>>

\* ------------------------------------------------------------- rate limiter

\* new Date(y, m, d, h, min, 0, 0) etc.: the clock truncated to the granularity
WindowLen(windowType) ==
  CASE windowType = "minute" -> MinuteMs
    [] windowType = "hour" -> HourMs
    [] windowType = "day" -> DayMs

\* the clock as it is, not truncated
getWindowStartUntruncated(windowType, clock) == clock

getWindowStart(windowType, clock) == clock - (clock % WindowLen(windowType))

getWindowEnd(windowType, clock) == getWindowStart(windowType, clock) + WindowLen(windowType)

\* Math.ceil(x / d) for d > 0
MathCeilDiv(x, d) == 0 - ((0 - x) \div d)

\* .single(): the row when exactly one row matches, otherwise no data
Single(rows) == IF Cardinality(rows) = 1 THEN rows ELSE {}

TheRow(rows) == CHOOSE r \in rows : TRUE

Limits(row) ==
  [requests_per_minute |-> row.requests_per_minute,
   requests_per_hour |-> row.requests_per_hour,
   requests_per_day |-> row.requests_per_day]

\* the key-scoped row taken whether active or not
getRateLimitConfigAnyKeyRow(table, apiKeyId, professionalId) ==
  LET keyConfig == Single({r \in table : r.scope = "api_key" /\ r.scope_id = apiKeyId})
      proConfig == Single({r \in table : r.scope = "professional" /\ r.scope_id = professionalId /\ r.is_active})
      globalConfig == Single({r \in table : r.scope = "global" /\ r.scope_id = NoTime /\ r.is_active})
  IN  IF keyConfig # {} THEN Limits(TheRow(keyConfig))
      ELSE IF proConfig # {} THEN Limits(TheRow(proConfig))
      ELSE IF globalConfig # {} THEN Limits(TheRow(globalConfig))
      ELSE DEFAULT_LIMITS

getRateLimitConfig(table, apiKeyId, professionalId) ==
  LET keyConfig == Single({r \in table : r.scope = "api_key" /\ r.scope_id = apiKeyId /\ r.is_active})
      proConfig == Single({r \in table : r.scope = "professional" /\ r.scope_id = professionalId /\ r.is_active})
      globalConfig == Single({r \in table : r.scope = "global" /\ r.scope_id = NoTime /\ r.is_active})
  IN  IF keyConfig # {} THEN Limits(TheRow(keyConfig))
      ELSE IF proConfig # {} THEN Limits(TheRow(proConfig))
      ELSE IF globalConfig # {} THEN Limits(TheRow(globalConfig))
      ELSE DEFAULT_LIMITS

\* the stored count whatever the window it was counted in
effectiveCountNoReset(rows, windowField, countField, window) ==
  IF rows = {} THEN 0 ELSE TheRow(rows)[countField]

\* lines 303-322: the stored count, or 0 when the stored window has passed
effectiveCount(rows, windowField, countField, window) ==
  IF rows = {} THEN 0
  ELSE IF TheRow(rows)[windowField] < window THEN 0
  ELSE TheRow(rows)[countField]

\* lines 325-327
minuteExceeded(count, config) == count >= config.requests_per_minute
hourExceeded(count, config) == count >= config.requests_per_hour
dayExceeded(count, config) == count >= config.requests_per_day

\* the finest exceeded granularity first
retryGranularityFinest(mEx, hEx, dEx) ==
  IF mEx THEN "minute" ELSE IF hEx THEN "hour" ELSE "day"

\* lines 331-338: the granularity the retry-after is computed from
retryGranularity(mEx, hEx, dEx) ==
  IF dEx THEN "day" ELSE IF hEx THEN "hour" ELSE "minute"

\* an insert that adds the row beside the one stored
UpsertAsInsert(table, row) == table \cup {row}

\* upsert with onConflict identifier,identifier_type (UNIQUE in the schema)
Upsert(table, row) ==
  {r \in table : ~(r.identifier = row.identifier /\ r.identifier_type = row.identifier_type)}
    \cup {row}

NoResult == [allowed |-> "pending", remaining |-> <<0, 0, 0>>, reset |-> <<NoTime, NoTime, NoTime>>,
             retryAfter |-> NoTime]

RlIdle ==
  [apiKeyId |-> 0, professionalId |-> 0, config |-> DEFAULT_LIMITS,
   minuteWindow |-> NoTime, hourWindow |-> NoTime, dayWindow |-> NoTime,
   seen |-> {}, minuteCount |-> 0, hourCount |-> 0, dayCount |-> 0,
   retryFrom |-> "none", retryEndAt |-> NoTime, windowEnd |-> NoTime, retryNow |-> NoTime,
   lastRequestAt |-> NoTime, storeFailed |-> FALSE, result |-> NoResult]

Bump(h, w) == IF w \in DOMAIN h THEN [h EXCEPT ![w] = @ + 1] ELSE h @@ (w :> 1)

Count(h, w) == IF w \in DOMAIN h THEN h[w] ELSE 0

\* line 283
RlConfig(p) ==
  /\ pc[p] = "rl_config"
  /\ rl' = [rl EXCEPT ![p].config = getRateLimitConfig(rate_config, rl[p].apiKeyId, rl[p].professionalId)]
  /\ pc' = [pc EXCEPT ![p] = "rl_minuteWindow"]
  /\ UNCHANGED <<now, rate_config, tracking, callsLeft, envVars, histVars, keyVars, gwVars>>

\* lines 287-289: three reads of the clock, one per getWindowStart call
RlMinuteWindow(p) ==
  /\ pc[p] = "rl_minuteWindow"
  /\ rl' = [rl EXCEPT ![p].minuteWindow = getWindowStart("minute", now)]
  /\ pc' = [pc EXCEPT ![p] = "rl_hourWindow"]
  /\ UNCHANGED <<now, rate_config, tracking, callsLeft, envVars, histVars, keyVars, gwVars>>

RlHourWindow(p) ==
  /\ pc[p] = "rl_hourWindow"
  /\ rl' = [rl EXCEPT ![p].hourWindow = getWindowStart("hour", now)]
  /\ pc' = [pc EXCEPT ![p] = "rl_dayWindow"]
  /\ UNCHANGED <<now, rate_config, tracking, callsLeft, envVars, histVars, keyVars, gwVars>>

RlDayWindow(p) ==
  /\ pc[p] = "rl_dayWindow"
  /\ rl' = [rl EXCEPT ![p].dayWindow = getWindowStart("day", now)]
  /\ pc' = [pc EXCEPT ![p] = "rl_select"]
  /\ UNCHANGED <<now, rate_config, tracking, callsLeft, envVars, histVars, keyVars, gwVars>>

\* lines 292-329: the select of the tracking row, the effective counts and
\* the comparison with the ceilings (the code after the await reads locals only)
RlSelect(p) ==
  /\ pc[p] = "rl_select"
  /\ LET rows == Single({r \in tracking : r.identifier = rl[p].apiKeyId /\ r.identifier_type = "api_key"})
         mc == effectiveCount(rows, "minute_window", "minute_count", rl[p].minuteWindow)
         hc == effectiveCount(rows, "hour_window", "hour_count", rl[p].hourWindow)
         dc == effectiveCount(rows, "day_window", "day_count", rl[p].dayWindow)
         mEx == minuteExceeded(mc, rl[p].config)
         hEx == hourExceeded(hc, rl[p].config)
         dEx == dayExceeded(dc, rl[p].config)
     IN  /\ rl' = [rl EXCEPT ![p].seen = rows, ![p].minuteCount = mc, ![p].hourCount = hc,
                             ![p].dayCount = dc,
                             ![p].retryFrom = IF mEx \/ hEx \/ dEx
                                              THEN retryGranularity(mEx, hEx, dEx) ELSE "none"]
         /\ pc' = [pc EXCEPT ![p] = IF mEx \/ hEx \/ dEx THEN "rl_retryEnd" ELSE "rl_stamp"]
  /\ UNCHANGED <<now, rate_config, tracking, callsLeft, envVars, histVars, keyVars, gwVars>>

\* lines 333/335/337, first operand: getWindowEnd reads the clock again
RlRetryEnd(p) ==
  /\ pc[p] = "rl_retryEnd"
  /\ rl' = [rl EXCEPT ![p].retryEndAt = now,
                      ![p].windowEnd = getWindowEnd(rl[p].retryFrom, now)]
  /\ pc' = [pc EXCEPT ![p] = "rl_retryNow"]
  /\ UNCHANGED <<now, rate_config, tracking, callsLeft, envVars, histVars, keyVars, gwVars>>

\* a denial that stamps the tracking row
RlRetryNowStamping(p) ==
  /\ pc[p] = "rl_retryNow"
  /\ rl' = [rl EXCEPT ![p].retryNow = now,
                      ![p].result.retryAfter = MathCeilDiv(rl[p].windowEnd - now, MsPerSecond),
                      ![p].result.allowed = "denied"]
  /\ tracking' = {[r EXCEPT !.last_request_at = now] : r \in tracking}
  /\ pc' = [pc EXCEPT ![p] = "rl_reset"]
  /\ UNCHANGED <<now, rate_config, callsLeft, envVars, histVars, keyVars, gwVars>>

\* lines 333/335/337, second operand: Date.now(), then Math.ceil
RlRetryNow(p) ==
  /\ pc[p] = "rl_retryNow"
  /\ rl' = [rl EXCEPT ![p].retryNow = now,
                      ![p].result.retryAfter = MathCeilDiv(rl[p].windowEnd - now, MsPerSecond),
                      ![p].result.allowed = "denied",
                      ![p].result.remaining =
                         << IF rl[p].config.requests_per_minute - rl[p].minuteCount > 0
                            THEN rl[p].config.requests_per_minute - rl[p].minuteCount ELSE 0,
                            IF rl[p].config.requests_per_hour - rl[p].hourCount > 0
                            THEN rl[p].config.requests_per_hour - rl[p].hourCount ELSE 0,
                            IF rl[p].config.requests_per_day - rl[p].dayCount > 0
                            THEN rl[p].config.requests_per_day - rl[p].dayCount ELSE 0 >>]
  /\ pc' = [pc EXCEPT ![p] = "rl_reset"]
  /\ UNCHANGED <<now, rate_config, tracking, callsLeft, envVars, histVars, keyVars, gwVars>>

\* line 374: new Date() for last_request_at, when the upsert is built
RlStamp(p) ==
  /\ pc[p] = "rl_stamp"
  /\ rl' = [rl EXCEPT ![p].lastRequestAt = now]
  /\ pc' = [pc EXCEPT ![p] = "rl_upsert"]
  /\ UNCHANGED <<now, rate_config, tracking, callsLeft, envVars, histVars, keyVars, gwVars>>

\* an update in place of the upsert: nothing is stored when no row exists
RlUpsertAsUpdate(p) ==
  /\ pc[p] = "rl_upsert"
  /\ tracking' = IF rl[p].seen = {} THEN tracking
                 ELSE Upsert(tracking,
       [identifier |-> rl[p].apiKeyId, identifier_type |-> "api_key",
        minute_window |-> rl[p].minuteWindow, minute_count |-> rl[p].minuteCount + 1,
        hour_window |-> rl[p].hourWindow, hour_count |-> rl[p].hourCount + 1,
        day_window |-> rl[p].dayWindow, day_count |-> rl[p].dayCount + 1,
        last_request_at |-> rl[p].lastRequestAt])
  /\ rl' = [rl EXCEPT ![p].result.allowed = "allowed",
                      ![p].result.remaining =
                         << rl[p].config.requests_per_minute - (rl[p].minuteCount + 1),
                            rl[p].config.requests_per_hour - (rl[p].hourCount + 1),
                            rl[p].config.requests_per_day - (rl[p].dayCount + 1) >>]
  /\ pc' = [pc EXCEPT ![p] = "rl_reset"]
  /\ UNCHANGED <<now, rate_config, callsLeft, envVars, histVars, keyVars, gwVars>>

\* lines 358-389: the upsert reaches the store
RlUpsert(p) ==
  /\ pc[p] = "rl_upsert"
  /\ tracking' = Upsert(tracking,
       [identifier |-> rl[p].apiKeyId, identifier_type |-> "api_key",
        minute_window |-> rl[p].minuteWindow, minute_count |-> rl[p].minuteCount + 1,
        hour_window |-> rl[p].hourWindow, hour_count |-> rl[p].hourCount + 1,
        day_window |-> rl[p].dayWindow, day_count |-> rl[p].dayCount + 1,
        last_request_at |-> rl[p].lastRequestAt])
  /\ rl' = [rl EXCEPT ![p].result.allowed = "allowed",
                      ![p].result.remaining =
                         << rl[p].config.requests_per_minute - (rl[p].minuteCount + 1),
                            rl[p].config.requests_per_hour - (rl[p].hourCount + 1),
                            rl[p].config.requests_per_day - (rl[p].dayCount + 1) >>]
  /\ pc' = [pc EXCEPT ![p] = "rl_reset"]
  /\ UNCHANGED <<now, rate_config, callsLeft, envVars, histVars, keyVars, gwVars>>

\* lines 347-351 and 390-394: the reset timestamps, then the return
RlReset(p) ==
  /\ pc[p] = "rl_reset"
  /\ rl' = [rl EXCEPT ![p].result.reset =
              <<getWindowEnd("minute", now), getWindowEnd("hour", now), getWindowEnd("day", now)>>]
  /\ pc' = [pc EXCEPT ![p] = "rl_done"]
  /\ admitted' = IF rl[p].result.allowed = "allowed" THEN Bump(admitted, rl[p].minuteWindow) ELSE admitted
  /\ evaluated' = Bump(evaluated, rl[p].minuteWindow)
  /\ UNCHANGED <<now, rate_config, tracking, callsLeft, envVars, keyVars, gwVars>>

checkRateLimit(p) ==
  \/ RlConfig(p)
  \/ RlMinuteWindow(p)
  \/ RlHourWindow(p)
  \/ RlDayWindow(p)
  \/ RlSelect(p)
  \/ RlRetryEnd(p)
  \/ RlRetryNow(p)
  \/ RlStamp(p)
  \/ RlUpsert(p)
  \/ RlReset(p)

\* the caller takes the decision; the frame of the call is gone
Return(p) ==
  /\ pc[p] = "rl_done"
  /\ pc' = [pc EXCEPT ![p] = "idle"]
  /\ rl' = [rl EXCEPT ![p] = RlIdle]
  /\ UNCHANGED <<now, rate_config, tracking, callsLeft, envVars, histVars, keyVars, gwVars>>

\* -------------------------------------------------------------- credentials

Tenants == 1..NumTenants

\* A presented or generated key string: its prefix, the length of what follows,
\* whether that is all of [A-Za-z0-9], and the content (the random part).
KeyString(prefix, len, alnum, secret) ==
  [prefix |-> prefix, len |-> len, alnum |-> alnum, secret |-> secret]

\* apiKeyAuth.ts 136-142: `ofair_pk_` and 32 characters of the charset
GeneratedKey(secret) == KeyString("ofair_pk_", KeyBodyLen, TRUE, secret)

EmptyKey == KeyString("", 0, TRUE, 0)

\* /^ofair_pk_[A-Za-z0-9]{32}$/
MatchesKeyFormat(k) == k.prefix = "ofair_pk_" /\ k.len = KeyBodyLen /\ k.alnum

\* SHA-256 of the whole string, in hex: equal strings have equal digests and
\* different strings different ones
hashApiKey(k) == <<"sha256", k.prefix, k.len, k.alnum, k.secret>>

\* `API Key ${new Date().toLocaleDateString('he-IL')}`
DefaultName(clock) == <<"API Key", getWindowStart("day", clock)>>

Label(n) == <<"label", n>>

KeyRow(id, professionalId, keyHash, name, createdAt, expiresAt) ==
  [id |-> id, professional_id |-> professionalId, key_prefix |-> "ofair_pk",
   key_hash |-> keyHash, name |-> name, is_active |-> TRUE, created_at |-> createdAt, last_used_at |-> NoTime,
   expires_at |-> expiresAt, revoked_at |-> NoTime]

Rows(table) == {table[i] : i \in DOMAIN table}

ActiveKeys(table, professionalId) ==
  {r \in Rows(table) : r.professional_id = professionalId /\ r.is_active}

\* the schema with key_hash UNIQUE alone
InsertAllowedByHashAlone(table, row) ==
  \A r \in Rows(table) : r.key_hash # row.key_hash

\* the schema: key_hash UNIQUE, UNIQUE(professional_id, name)
InsertAllowed(table, row) ==
  /\ \A r \in Rows(table) : r.key_hash # row.key_hash
  /\ \A r \in Rows(table) : ~(r.professional_id = row.professional_id /\ r.name = row.name)

NoValidation == [status |-> "pending", errorCode |-> "", professionalId |-> 0, apiKeyId |-> 0]

Invalid(code) == [status |-> "invalid", errorCode |-> code, professionalId |-> 0, apiKeyId |-> 0]

VaIdle ==
  [apiKey |-> EmptyKey, data |-> {}, storeAtLookup |-> <<>>, lookupAt |-> NoTime,
   stamp |-> NoTime, afterExpired |-> FALSE, storeFailed |-> FALSE, result |-> NoValidation]

KmIdle ==
  [op |-> "none", professionalId |-> 0, name |-> 0, keyId |-> 0, count |-> 0,
   fullKey |-> EmptyKey, stamp |-> NoTime, lenAtStart |-> 0, following |-> FALSE,
   carried |-> FALSE, status |-> 0, error |-> "", api_key |-> EmptyKey, keys |-> {}]

\* ---- validateApiKey (apiKeyAuth.ts 32-126)

\* lines 36-51: the checks made before any store operation
VaEnter(p) ==
  /\ pc[p] = "va_enter"
  /\ IF va[p].apiKey = EmptyKey
     THEN /\ va' = [va EXCEPT ![p].result = Invalid("missing_api_key")]
          /\ pc' = [pc EXCEPT ![p] = "va_done"]
     ELSE IF ~MatchesKeyFormat(va[p].apiKey)
     THEN /\ va' = [va EXCEPT ![p].result = Invalid("invalid_api_key_format")]
          /\ pc' = [pc EXCEPT ![p] = "va_done"]
     ELSE /\ va' = va
          /\ pc' = [pc EXCEPT ![p] = "va_lookup"]
  /\ UNCHANGED <<now, callsLeft, envVars, rateVars, api_keys, km, nextSecret, story, gwVars>>

\* lines 55-71: the digest and the select by key_hash
VaLookup(p) ==
  /\ pc[p] = "va_lookup"
  /\ LET keyHash == hashApiKey(va[p].apiKey)
         data == Single({r \in Rows(api_keys) : r.key_hash = keyHash})
     IN  IF data = {}
         THEN /\ va' = [va EXCEPT ![p].result = Invalid("invalid_api_key")]
              /\ pc' = [pc EXCEPT ![p] = "va_done"]
         ELSE /\ va' = [va EXCEPT ![p].data = data, ![p].storeAtLookup = api_keys,
                                  ![p].lookupAt = now]
              /\ pc' = [pc EXCEPT ![p] = "va_check"]
  /\ UNCHANGED <<now, callsLeft, envVars, rateVars, api_keys, km, nextSecret, story, gwVars>>

\* the checks with revoked_at looked at before is_active
VaCheckRevokedFirst(p) ==
  /\ pc[p] = "va_check"
  /\ LET data == TheRow(va[p].data)
     IN  IF data.revoked_at # NoTime
         THEN /\ va' = [va EXCEPT ![p].result = Invalid("revoked_api_key")]
              /\ pc' = [pc EXCEPT ![p] = "va_done"]
         ELSE IF ~data.is_active
         THEN /\ va' = [va EXCEPT ![p].result = Invalid("inactive_api_key")]
              /\ pc' = [pc EXCEPT ![p] = "va_done"]
         ELSE IF data.expires_at # NoTime /\ data.expires_at < now
         THEN /\ va' = va
              /\ pc' = [pc EXCEPT ![p] = "va_deactivate"]
         ELSE /\ va' = [va EXCEPT ![p].stamp = now]
              /\ pc' = [pc EXCEPT ![p] = "va_touch"]
  /\ UNCHANGED <<now, callsLeft, envVars, rateVars, api_keys, km, nextSecret, story, gwVars>>

\* the checks without the one on expires_at
VaCheckNoExpiry(p) ==
  /\ pc[p] = "va_check"
  /\ LET data == TheRow(va[p].data)
     IN  IF ~data.is_active
         THEN /\ va' = [va EXCEPT ![p].result = Invalid("inactive_api_key")]
              /\ pc' = [pc EXCEPT ![p] = "va_done"]
         ELSE IF data.revoked_at # NoTime
         THEN /\ va' = [va EXCEPT ![p].result = Invalid("revoked_api_key")]
              /\ pc' = [pc EXCEPT ![p] = "va_done"]
         ELSE /\ va' = [va EXCEPT ![p].stamp = now]
              /\ pc' = [pc EXCEPT ![p] = "va_touch"]
  /\ UNCHANGED <<now, callsLeft, envVars, rateVars, api_keys, km, nextSecret, story, gwVars>>

\* lines 74-92 and 109: the checks on the row read, with `new Date()`
VaCheck(p) ==
  /\ pc[p] = "va_check"
  /\ LET data == TheRow(va[p].data)
     IN  IF ~data.is_active
         THEN /\ va' = [va EXCEPT ![p].result = Invalid("inactive_api_key")]
              /\ pc' = [pc EXCEPT ![p] = "va_done"]
         ELSE IF data.revoked_at # NoTime
         THEN /\ va' = [va EXCEPT ![p].result = Invalid("revoked_api_key")]
              /\ pc' = [pc EXCEPT ![p] = "va_done"]
         ELSE IF data.expires_at # NoTime /\ data.expires_at < now
         THEN /\ va' = va
              /\ pc' = [pc EXCEPT ![p] = "va_deactivate"]
         ELSE /\ va' = [va EXCEPT ![p].stamp = now]
              /\ pc' = [pc EXCEPT ![p] = "va_touch"]
  /\ UNCHANGED <<now, callsLeft, envVars, rateVars, api_keys, km, nextSecret, story, gwVars>>

\* the expired answer without the update
VaDeactivateNoWrite(p) ==
  /\ pc[p] = "va_deactivate"
  /\ va' = [va EXCEPT ![p].result = Invalid("expired_api_key")]
  /\ pc' = [pc EXCEPT ![p] = "va_done"]
  /\ UNCHANGED <<now, callsLeft, envVars, rateVars, api_keys, km, nextSecret, story, gwVars>>

\* lines 94-103: update is_active = false where id = data.id
VaDeactivate(p) ==
  /\ pc[p] = "va_deactivate"
  /\ api_keys' = [api_keys EXCEPT ![TheRow(va[p].data).id].is_active = FALSE]
  /\ va' = [va EXCEPT ![p].result = Invalid("expired_api_key")]
  /\ pc' = [pc EXCEPT ![p] = "va_done"]
  /\ UNCHANGED <<now, callsLeft, envVars, rateVars, km, nextSecret, story, gwVars>>

\* the row written back whole, as the lookup read it
VaTouchWholeRow(p) ==
  /\ pc[p] = "va_touch"
  /\ api_keys' = [api_keys EXCEPT ![TheRow(va[p].data).id] =
                    [TheRow(va[p].data) EXCEPT !.last_used_at = va[p].stamp]]
  /\ va' = [va EXCEPT ![p].result =
              [status |-> "valid", errorCode |-> "",
               professionalId |-> TheRow(va[p].data).professional_id,
               apiKeyId |-> TheRow(va[p].data).id]]
  /\ pc' = [pc EXCEPT ![p] = "va_done"]
  /\ UNCHANGED <<now, callsLeft, envVars, rateVars, km, nextSecret, story, gwVars>>

\* lines 107-116: update last_used_at where id = data.id
VaTouch(p) ==
  /\ pc[p] = "va_touch"
  /\ api_keys' = [api_keys EXCEPT ![TheRow(va[p].data).id].last_used_at = va[p].stamp]
  /\ va' = [va EXCEPT ![p].result =
              [status |-> "valid", errorCode |-> "",
               professionalId |-> TheRow(va[p].data).professional_id,
               apiKeyId |-> TheRow(va[p].data).id]]
  /\ pc' = [pc EXCEPT ![p] = "va_done"]
  /\ UNCHANGED <<now, callsLeft, envVars, rateVars, km, nextSecret, story, gwVars>>

validateApiKey(p) ==
  \/ VaEnter(p)
  \/ VaLookup(p)
  \/ VaCheck(p)
  \/ VaDeactivate(p)
  \/ VaTouch(p)

\* ---- create-api-key (create-api-key/index.ts) with generateApiKey

Done(p, status, error) ==
  /\ km' = [km EXCEPT ![p].status = status, ![p].error = error]
  /\ pc' = [pc EXCEPT ![p] = "km_done"]

\* lines 12-67: the bearer token (0: none or unknown or expired) and the name
\* of the body (0: none)
StartCreate(p) ==
  /\ pc[p] = "idle"
  /\ callsLeft > 0
  /\ serial => p = 1
  /\ callsLeft' = callsLeft - 1
  /\ \E token \in {0} \cup Tenants, name \in {0, 1, MaxActiveKeys + 1} :
       LET frame == [KmIdle EXCEPT !.op = "create", !.professionalId = token, !.name = name,
                                   !.lenAtStart = Len(api_keys),
                                   !.following = (token # 0 /\ story[token] = "revoked"),
                                   !.carried = (\E r \in ActiveKeys(api_keys, token) :
                                                  r.name = Label(name))]
       IN  IF token = 0
           THEN /\ km' = [km EXCEPT ![p] = [frame EXCEPT !.status = 401, !.error = "token"]]
                /\ pc' = [pc EXCEPT ![p] = "km_done"]
           ELSE /\ km' = [km EXCEPT ![p] = frame]
                /\ pc' = [pc EXCEPT ![p] = "ck_count"]
  /\ UNCHANGED <<now, envVars, rateVars, api_keys, va, nextSecret, story, gwVars>>

\* lines 70-82, then generateApiKey 136-144: the count of the active keys,
\* the quota, the random key
CkCount(p) ==
  /\ pc[p] = "ck_count"
  /\ LET count == Cardinality(ActiveKeys(api_keys, km[p].professionalId))
     IN  IF count >= MaxActiveKeys
         THEN /\ km' = [km EXCEPT ![p].count = count, ![p].status = 400, ![p].error = "quota"]
              /\ pc' = [pc EXCEPT ![p] = "km_done"]
              /\ story' = [story EXCEPT ![km[p].professionalId] = "quota"]
              /\ UNCHANGED nextSecret
         ELSE /\ km' = [km EXCEPT ![p].count = count, ![p].fullKey = GeneratedKey(nextSecret)]
              /\ nextSecret' = nextSecret + 1
              /\ pc' = [pc EXCEPT ![p] = IF km[p].name # 0 THEN "ck_existing" ELSE "ck_insert"]
              /\ UNCHANGED story
  /\ UNCHANGED <<now, callsLeft, envVars, rateVars, api_keys, va, gwVars>>

\* apiKeyAuth.ts 147-159: an active key of the professional with this name
CkExisting(p) ==
  /\ pc[p] = "ck_existing"
  /\ LET existingKey == Single({r \in ActiveKeys(api_keys, km[p].professionalId) :
                                  r.name = Label(km[p].name)})
     IN  IF existingKey # {}
         THEN Done(p, 400, "duplicate_name")
         ELSE /\ km' = km
              /\ pc' = [pc EXCEPT ![p] = "ck_insert"]
  /\ UNCHANGED <<now, callsLeft, envVars, rateVars, api_keys, va, nextSecret, story, gwVars>>

\* apiKeyAuth.ts 162-183 and index.ts 87-104: the insert
CkInsert(p) ==
  /\ pc[p] = "ck_insert"
  /\ LET row == KeyRow(Len(api_keys) + 1, km[p].professionalId, hashApiKey(km[p].fullKey),
                       IF km[p].name # 0 THEN Label(km[p].name) ELSE DefaultName(now),
                       now, NoTime)
     IN  IF InsertAllowed(api_keys, row)
         THEN /\ api_keys' = Append(api_keys, row)
              /\ km' = [km EXCEPT ![p].keyId = row.id, ![p].status = 201,
                                  ![p].api_key = km[p].fullKey]
              /\ pc' = [pc EXCEPT ![p] = "km_done"]
              /\ story' = [story EXCEPT ![km[p].professionalId] = "none"]
         ELSE /\ Done(p, 400, "create_failed")
              /\ UNCHANGED <<api_keys, story>>
  /\ UNCHANGED <<now, callsLeft, envVars, rateVars, va, nextSecret, gwVars>>

createApiKey(p) == CkCount(p) \/ CkExisting(p) \/ CkInsert(p)

\* ---- revoke-api-key (unnamed/part_002)

\* lines 11-78: the bearer token and the key_id of the body
StartRevoke(p) ==
  /\ pc[p] = "idle"
  /\ callsLeft > 0
  /\ serial => p = 1
  /\ callsLeft' = callsLeft - 1
  /\ \E token \in {0} \cup Tenants, keyId \in {1, Len(api_keys) + 1} :
       LET frame == [KmIdle EXCEPT !.op = "revoke", !.professionalId = token, !.keyId = keyId,
                                   !.lenAtStart = Len(api_keys)]
       IN  IF token = 0
           THEN /\ km' = [km EXCEPT ![p] = [frame EXCEPT !.status = 401, !.error = "token"]]
                /\ pc' = [pc EXCEPT ![p] = "km_done"]
           ELSE /\ km' = [km EXCEPT ![p] = frame]
                /\ pc' = [pc EXCEPT ![p] = "rk_select"]
  /\ UNCHANGED <<now, envVars, rateVars, api_keys, va, nextSecret, story, gwVars>>

\* the checks without the one on is_active
RkSelectNoActiveCheck(p) ==
  /\ pc[p] = "rk_select"
  /\ IF km[p].keyId \notin DOMAIN api_keys
     THEN Done(p, 404, "not_found")
     ELSE IF api_keys[km[p].keyId].professional_id # km[p].professionalId
     THEN Done(p, 403, "forbidden")
     ELSE /\ km' = [km EXCEPT ![p].stamp = now]
          /\ pc' = [pc EXCEPT ![p] = "rk_update"]
  /\ UNCHANGED <<now, callsLeft, envVars, rateVars, api_keys, va, nextSecret, story, gwVars>>

\* lines 81-106 and 113: the select by id, the checks, `new Date()`
RkSelect(p) ==
  /\ pc[p] = "rk_select"
  /\ IF km[p].keyId \notin DOMAIN api_keys
     THEN Done(p, 404, "not_found")
     ELSE IF api_keys[km[p].keyId].professional_id # km[p].professionalId
     THEN Done(p, 403, "forbidden")
     ELSE IF ~api_keys[km[p].keyId].is_active
     THEN Done(p, 400, "already_inactive")
     ELSE /\ km' = [km EXCEPT ![p].stamp = now]
          /\ pc' = [pc EXCEPT ![p] = "rk_update"]
  /\ UNCHANGED <<now, callsLeft, envVars, rateVars, api_keys, va, nextSecret, story, gwVars>>

\* success answered without the update having been made
RkUpdateWithoutWrite(p) ==
  /\ pc[p] = "rk_update"
  /\ km' = [km EXCEPT ![p].status = 200]
  /\ pc' = [pc EXCEPT ![p] = "km_done"]
  /\ story' = [story EXCEPT ![km[p].professionalId] = IF @ = "quota" THEN "revoked" ELSE @]
  /\ UNCHANGED <<now, callsLeft, envVars, rateVars, api_keys, va, nextSecret, gwVars>>

\* lines 109-132: update is_active = false, revoked_at where id = keyId
RkUpdate(p) ==
  /\ pc[p] = "rk_update"
  /\ api_keys' = [api_keys EXCEPT ![km[p].keyId].is_active = FALSE,
                                  ![km[p].keyId].revoked_at = km[p].stamp]
  /\ km' = [km EXCEPT ![p].status = 200]
  /\ pc' = [pc EXCEPT ![p] = "km_done"]
  /\ story' = [story EXCEPT ![km[p].professionalId] = IF @ = "quota" THEN "revoked" ELSE @]
  /\ UNCHANGED <<now, callsLeft, envVars, rateVars, va, nextSecret, gwVars>>

revokeApiKey(p) == RkSelect(p) \/ RkUpdate(p)

\* ---- list-api-keys (unnamed/part_001 197-292)

\* lines 203-247: the method and the bearer token
StartList(p) ==
  /\ pc[p] = "idle"
  /\ callsLeft > 0
  /\ serial => p = 1
  /\ callsLeft' = callsLeft - 1
  /\ \E token \in {0} \cup Tenants :
       LET frame == [KmIdle EXCEPT !.op = "list", !.professionalId = token,
                                   !.lenAtStart = Len(api_keys)]
       IN  IF token = 0
           THEN /\ km' = [km EXCEPT ![p] = [frame EXCEPT !.status = 401, !.error = "token"]]
                /\ pc' = [pc EXCEPT ![p] = "km_done"]
           ELSE /\ km' = [km EXCEPT ![p] = frame]
                /\ pc' = [pc EXCEPT ![p] = "ls_select"]
  /\ UNCHANGED <<now, envVars, rateVars, api_keys, va, nextSecret, story, gwVars>>

\* lines 266-275: what the response shows of a row
ListedKey(key) ==
  [id |-> key.id, key_display |-> <<key.key_prefix, "_****">>, name |-> key.name,
   is_active |-> key.is_active, created_at |-> key.created_at,
   last_used_at |-> key.last_used_at, expires_at |-> key.expires_at,
   revoked_at |-> key.revoked_at]

\* the rows selected with all their columns and returned as they are
LsSelectAllColumns(p) ==
  /\ pc[p] = "ls_select"
  /\ km' = [km EXCEPT ![p].keys = {r \in Rows(api_keys) : r.professional_id = km[p].professionalId},
                      ![p].status = 200]
  /\ pc' = [pc EXCEPT ![p] = "km_done"]
  /\ UNCHANGED <<now, callsLeft, envVars, rateVars, api_keys, va, nextSecret, story, gwVars>>

\* lines 251-283: the select of the professional's rows, without key_hash
LsSelect(p) ==
  /\ pc[p] = "ls_select"
  /\ km' = [km EXCEPT ![p].keys = {ListedKey(r) : r \in {k \in Rows(api_keys) :
                                                          k.professional_id = km[p].professionalId}},
                      ![p].status = 200]
  /\ pc' = [pc EXCEPT ![p] = "km_done"]
  /\ UNCHANGED <<now, callsLeft, envVars, rateVars, api_keys, va, nextSecret, story, gwVars>>

\* the response of create-api-key / revoke-api-key / list-api-keys is out
KmReturn(p) ==
  /\ pc[p] = "km_done"
  /\ pc' = [pc EXCEPT ![p] = "idle"]
  /\ km' = [km EXCEPT ![p] = KmIdle]
  /\ UNCHANGED <<now, callsLeft, envVars, rateVars, api_keys, va, nextSecret, story, gwVars>>

\* ---- validateApiKey called on its own

PresentedKeys ==
  {EmptyKey, KeyString("ofair_pk_", KeyBodyLen - 1, TRUE, 1), GeneratedKey(0)}
    \cup {GeneratedKey(s) : s \in 1..2}

Authenticate(p) ==
  /\ pc[p] = "idle"
  /\ callsLeft > 0
  /\ serial => p = 1
  /\ callsLeft' = callsLeft - 1
  /\ \E k \in PresentedKeys : va' = [va EXCEPT ![p] = [VaIdle EXCEPT !.apiKey = k]]
  /\ pc' = [pc EXCEPT ![p] = "va_enter"]
  /\ UNCHANGED <<now, envVars, rateVars, api_keys, km, nextSecret, story, gwVars>>

AuthReturn(p) ==
  /\ pc[p] = "va_done"
  /\ pc' = [pc EXCEPT ![p] = "idle"]
  /\ va' = [va EXCEPT ![p] = VaIdle]
  /\ UNCHANGED <<now, callsLeft, envVars, rateVars, api_keys, km, nextSecret, story, gwVars>>

\* a caller invokes checkRateLimit for credential 1 of tenant 1
Call(p) ==
  /\ pc[p] = "idle"
  /\ callsLeft > 0
  /\ serial => p = 1
  /\ callsLeft' = callsLeft - 1
  /\ rl' = [rl EXCEPT ![p] = [RlIdle EXCEPT !.apiKeyId = 1, !.professionalId = 1]]
  /\ pc' = [pc EXCEPT ![p] = "rl_config"]
  /\ UNCHANGED <<now, rate_config, tracking, envVars, histVars, keyVars, gwVars>>

\* ------------------------------------------------------------ audit logger

\* A request body as req.json() yields it: unparseable, the JSON null, or an
\* object (a record; `payload` stands for the business fields the
\* collaborator validates).
InvalidJson == [json |-> "invalid"]
NullBody == [json |-> "null"]
ObjectBody(fields) == [json |-> "object", value |-> fields]

\* a JSON value of a field: a string (its characters) or a number
JsonString(chars) == [type |-> "string", chars |-> chars]
JsonNumber(n) == [type |-> "number", n |-> n]

\* a request body that is a bare JSON number
NumberBody(n) == [json |-> "number", value |-> n]

Phone == <<"0", "5", "0", "1", "2", "3", "4", "5", "6", "7">>

Bodies ==
  {InvalidJson, NullBody,
   ObjectBody([payload |-> "bad"]),
   ObjectBody([payload |-> "good", client_phone |-> JsonString(Phone)]),
   ObjectBody([payload |-> "good", client_phone |-> JsonString(Phone),
               token |-> JsonString(<<"t">>), api_key |-> JsonString(<<"k">>)])}

Stars(n) == [i \in 1..n |-> "*"]

\* `!body`: null and the number 0
Falsy(body) == body.json = "null" \/ (body.json = "number" /\ body.value = 0)

\* `{ ...body }`: the own properties of the value; a number has none
Spread(body) == IF body.json = "object" THEN body.value ELSE <<>>

\* lines 39: `sanitized.client_phone && typeof sanitized.client_phone === 'string'`
IsNonEmptyString(v) == v.type = "string" /\ Len(v.chars) > 0

\* lines 41-43
MaskPhone(phone) ==
  IF Len(phone) > 4
  THEN Stars(Len(phone) - 4) \o SubSeq(phone, Len(phone) - 3, Len(phone))
  ELSE Stars(4)

\* the copy with the phone masked, the three deletes left out
sanitizeRequestBodyWithoutDeletes(body) ==
  IF Falsy(body) THEN NullBody
  ELSE ObjectBody(
         [f \in DOMAIN Spread(body) |->
            IF f = "client_phone" /\ IsNonEmptyString(Spread(body)[f])
            THEN JsonString(MaskPhone(Spread(body)[f].chars))
            ELSE Spread(body)[f]])

\* requestLogger.ts 32-51
sanitizeRequestBody(body) ==
  IF Falsy(body) THEN NullBody
  ELSE ObjectBody(
         [f \in DOMAIN Spread(body) \ {"password", "token", "api_key"} |->
            IF f = "client_phone" /\ IsNonEmptyString(Spread(body)[f])
            THEN JsonString(MaskPhone(Spread(body)[f].chars))
            ELSE Spread(body)[f]])

\* ---- sanitizeRequestBody called on its own

\* the longest proper prefix of Phone that is given as a phone value
MaxPhoneLen == 6

Absent == [type |-> "absent"]

\* client_phone: strings of every length up to MaxPhoneLen, the whole phone, numbers
PhoneValues ==
  {JsonString(SubSeq(Phone, 1, n)) : n \in 0..MaxPhoneLen}
    \cup {JsonString(Phone), JsonNumber(0), JsonNumber(501234567)}

SensitiveFields == {"password", "token", "api_key"}

Fields(phone, secrets) ==
  [f \in {"payload"} \cup (IF phone = Absent THEN {} ELSE {"client_phone"}) \cup secrets |->
     IF f = "payload" THEN "good"
     ELSE IF f = "client_phone" THEN phone
     ELSE JsonString(<<"s">>)]

SanitizeBodies ==
  {NullBody, NumberBody(0), NumberBody(5)}
    \cup {ObjectBody(Fields(phone, secrets)) :
            phone \in PhoneValues \cup {Absent}, secrets \in SUBSET SensitiveFields}

\* given: the argument as it was at the call; body: the caller's object now
SanIdle == [given |-> NullBody, body |-> NullBody, sanitized |-> NullBody, again |-> NullBody]

SanCall(p) ==
  /\ pc[p] = "idle"
  /\ callsLeft > 0
  /\ serial => p = 1
  /\ callsLeft' = callsLeft - 1
  /\ \E body \in SanitizeBodies :
       san' = [san EXCEPT ![p] = [SanIdle EXCEPT !.given = body, !.body = body]]
  /\ pc' = [pc EXCEPT ![p] = "san_first"]
  /\ UNCHANGED <<now, envVars, rateVars, keyVars, gw, logs, nextRequestId>>

\* the assignment and the deletes made on the caller's object itself
SanSanitizeInPlace(p) ==
  /\ pc[p] = "san_first"
  /\ san' = [san EXCEPT ![p].sanitized = sanitizeRequestBody(san[p].body),
                        ![p].body = sanitizeRequestBody(san[p].body)]
  /\ pc' = [pc EXCEPT ![p] = "san_second"]
  /\ UNCHANGED <<now, callsLeft, envVars, rateVars, keyVars, gw, logs, nextRequestId>>

\* lines 33-50: the assignment and the deletes are made on the spread copy
SanSanitize(p) ==
  /\ pc[p] = "san_first"
  /\ san' = [san EXCEPT ![p].sanitized = sanitizeRequestBody(san[p].body)]
  /\ pc' = [pc EXCEPT ![p] = "san_second"]
  /\ UNCHANGED <<now, callsLeft, envVars, rateVars, keyVars, gw, logs, nextRequestId>>

\* the result is sanitized once more
SanAgain(p) ==
  /\ pc[p] = "san_second"
  /\ san' = [san EXCEPT ![p].again = sanitizeRequestBody(san[p].sanitized)]
  /\ pc' = [pc EXCEPT ![p] = "san_done"]
  /\ UNCHANGED <<now, callsLeft, envVars, rateVars, keyVars, gw, logs, nextRequestId>>

SanReturn(p) ==
  /\ pc[p] = "san_done"
  /\ san' = [san EXCEPT ![p] = SanIdle]
  /\ pc' = [pc EXCEPT ![p] = "idle"]
  /\ UNCHANGED <<now, callsLeft, envVars, rateVars, keyVars, gw, logs, nextRequestId>>

\* ---------------------------------------------------------------- gateway

\* a response without the X-RateLimit-* headers
NoHeaders == [limit |-> <<>>, remaining |-> <<>>, reset |-> <<>>]

NoResponse ==
  [status |-> 0, error |-> "", retry_after |-> NoTime, lead_id |-> 0, request_id |-> 0,
   headers |-> NoHeaders]

\* requestLogger.ts 401-413: the limits are the literals '60', '1000', '10000'
getRateLimitHeaders(result) ==
  [limit |-> <<60, 1000, 10000>>, remaining |-> result.remaining, reset |-> result.reset]

GwIdle ==
  [entered |-> FALSE, requestId |-> 0, startTime |-> NoTime, method |-> "",
   apiKeyId |-> 0, professionalId |-> 0, requestBody |-> NullBody,
   submitted |-> "none", finalized |-> 0, audit |-> "none", returned |-> FALSE,
   response |-> NoResponse]

\* a response body built without the request id of the context
ResponseWithoutRequestId(p, status, error) ==
  [NoResponse EXCEPT !.status = status, !.error = error]

Response(p, status, error) ==
  [NoResponse EXCEPT !.status = status, !.error = error, !.request_id = gw[p].requestId]

\* a response that spreads rateLimitHeaders into its headers
RateChecked(p, status, error) ==
  [Response(p, status, error) EXCEPT !.headers = getRateLimitHeaders(rl[p].result)]

\* the handler has its response; finalizeRequest comes next
Outcome(p, response) ==
  /\ gw' = [gw EXCEPT ![p].response = response]
  /\ pc' = [pc EXCEPT ![p] = "gw_finalize"]

\* submitLead has thrown or returned its result; the handler has its response
Delegated(p, result, response) ==
  /\ gw' = [gw EXCEPT ![p].submitted = result, ![p].response = response]
  /\ pc' = [pc EXCEPT ![p] = "gw_finalize"]

GatewayKeys ==
  {EmptyKey, KeyString("ofair_pk_", KeyBodyLen - 1, TRUE, 1), GeneratedKey(0)}
    \cup {GeneratedKey(s) : s \in 1..3}

\* part_001 8-55: the preflight answer, getSupabaseClient (which throws when
\* the environment is not configured), createRequestContext, the method and
\* the X-API-Key header
GwReceive(p) ==
  /\ pc[p] = "idle"
  /\ callsLeft > 0
  /\ serial => p = 1
  /\ callsLeft' = callsLeft - 1
  /\ \E method \in {"OPTIONS", "GET", "POST"}, apiKey \in GatewayKeys :
       LET context == [GwIdle EXCEPT !.entered = TRUE, !.requestId = nextRequestId,
                                     !.startTime = now, !.method = method]
       IN  IF method = "OPTIONS"
           THEN /\ gw' = [gw EXCEPT ![p] = [GwIdle EXCEPT !.method = method, !.returned = TRUE,
                                                        !.response.status = 200]]
                /\ pc' = [pc EXCEPT ![p] = "gw_done"]
                /\ UNCHANGED <<va, nextRequestId>>
           ELSE IF ~configured
           THEN /\ gw' = [gw EXCEPT ![p] = [GwIdle EXCEPT !.method = method]]
                /\ pc' = [pc EXCEPT ![p] = "gw_done"]
                /\ UNCHANGED <<va, nextRequestId>>
           ELSE IF method # "POST"
           THEN /\ gw' = [gw EXCEPT ![p] = [context EXCEPT !.response =
                            [NoResponse EXCEPT !.status = 405, !.error = "method_not_allowed",
                                               !.request_id = nextRequestId]]]
                /\ pc' = [pc EXCEPT ![p] = "gw_finalize"]
                /\ nextRequestId' = nextRequestId + 1
                /\ UNCHANGED va
           ELSE IF apiKey = EmptyKey
           THEN /\ gw' = [gw EXCEPT ![p] = [context EXCEPT !.response =
                            [NoResponse EXCEPT !.status = 401, !.error = "missing_api_key",
                                               !.request_id = nextRequestId]]]
                /\ pc' = [pc EXCEPT ![p] = "gw_finalize"]
                /\ nextRequestId' = nextRequestId + 1
                /\ UNCHANGED va
           ELSE /\ gw' = [gw EXCEPT ![p] = context]
                /\ va' = [va EXCEPT ![p] = [VaIdle EXCEPT !.apiKey = apiKey]]
                /\ pc' = [pc EXCEPT ![p] = "va_enter"]
                /\ nextRequestId' = nextRequestId + 1
  /\ UNCHANGED <<now, envVars, rateVars, api_keys, km, nextSecret, story, logs, san>>

\* part_001 55-82: the answer of validateApiKey, then the call of checkRateLimit
GwAfterAuth(p) ==
  /\ pc[p] = "va_done"
  /\ IF va[p].result.status # "valid"
     THEN /\ Outcome(p, Response(p, 401, va[p].result.errorCode))
          /\ UNCHANGED rl
     ELSE /\ gw' = [gw EXCEPT ![p].apiKeyId = va[p].result.apiKeyId,
                              ![p].professionalId = va[p].result.professionalId]
          /\ rl' = [rl EXCEPT ![p] = [RlIdle EXCEPT !.apiKeyId = va[p].result.apiKeyId,
                                                     !.professionalId = va[p].result.professionalId]]
          /\ pc' = [pc EXCEPT ![p] = "rl_config"]
  /\ UNCHANGED <<now, callsLeft, envVars, rate_config, tracking, histVars, keyVars, logs, nextRequestId, san>>

\* the decision of checkRateLimit not looked at
GwAfterRateIgnoringDenial(p) ==
  /\ pc[p] = "rl_done"
  /\ gw' = gw
  /\ pc' = [pc EXCEPT ![p] = "gw_json"]
  /\ UNCHANGED <<now, callsLeft, envVars, rateVars, keyVars, logs, nextRequestId, san>>

\* part_001 84-112: the decision of checkRateLimit
GwAfterRate(p) ==
  /\ pc[p] = "rl_done"
  /\ IF rl[p].result.allowed = "denied"
     THEN Outcome(p, [RateChecked(p, 429, "rate_limit_exceeded") EXCEPT
                        !.retry_after = rl[p].result.retryAfter])
     ELSE /\ gw' = gw
          /\ pc' = [pc EXCEPT ![p] = "gw_json"]
  /\ UNCHANGED <<now, callsLeft, envVars, rateVars, keyVars, logs, nextRequestId, san>>

\* a body that is not JSON gives the slot back
GwJsonRefunding(p) ==
  /\ pc[p] = "gw_json"
  /\ \E body \in Bodies :
       IF body = InvalidJson
       THEN /\ Outcome(p, RateChecked(p, 400, "invalid_json"))
            /\ tracking' = {IF r.identifier = rl[p].apiKeyId
                            THEN [r EXCEPT !.minute_count = @ - 1, !.hour_count = @ - 1,
                                           !.day_count = @ - 1]
                            ELSE r : r \in tracking}
       ELSE /\ gw' = [gw EXCEPT ![p].requestBody = body]
            /\ pc' = [pc EXCEPT ![p] = "gw_submit"]
            /\ tracking' = tracking
  /\ UNCHANGED <<now, callsLeft, envVars, rate_config, rl, histVars, keyVars, logs,
                 nextRequestId, san>>

\* part_001 114-134: await req.json()
GwJson(p) ==
  /\ pc[p] = "gw_json"
  /\ \E body \in Bodies :
       IF body = InvalidJson
       THEN Outcome(p, RateChecked(p, 400, "invalid_json"))
       ELSE /\ gw' = [gw EXCEPT ![p].requestBody = body]
            /\ pc' = [pc EXCEPT ![p] = "gw_submit"]
  /\ UNCHANGED <<now, callsLeft, envVars, rateVars, keyVars, logs, nextRequestId, san>>

\* part_001 136-171 with leadSubmission.ts 152-254: the collaborator throws
\* on the JSON null (validateLeadRequest reads a property of it), rejects a
\* payload, fails on its own store, or creates the lead
GwSubmit(p) ==
  /\ pc[p] = "gw_submit"
  /\ IF gw[p].requestBody = NullBody
     THEN Delegated(p, "thrown", Response(p, 500, "internal_error"))
     ELSE IF gw[p].requestBody.value.payload = "bad"
     THEN Delegated(p, "validation_error", RateChecked(p, 400, "validation_error"))
     ELSE \E result \in {"professional_not_found", "database_error", "created"} :
            IF result = "created"
            THEN Delegated(p, result, [RateChecked(p, 201, "") EXCEPT !.lead_id = gw[p].requestId])
            ELSE Delegated(p, result, RateChecked(p, 400, result))
  /\ UNCHANGED <<now, callsLeft, envVars, rateVars, keyVars, logs, nextRequestId, san>>

\* part_001 173-185: an awaited store call of checkRateLimit rejects; the
\* catch block of the handler takes over
GwCatch(p) ==
  /\ pc[p] \in {"rl_select", "rl_upsert"}
  /\ gw[p].entered
  /\ Outcome(p, Response(p, 500, "internal_error"))
  /\ UNCHANGED <<now, callsLeft, envVars, rateVars, keyVars, logs, nextRequestId, san>>

\* the audit row with the request body as it was received
AuditRecordRawBody(p) ==
  [request_id |-> gw[p].requestId, api_key_id |-> gw[p].apiKeyId,
   professional_id |-> gw[p].professionalId, method |-> gw[p].method,
   request_body |-> gw[p].requestBody,
   response_status |-> gw[p].response.status,
   response_body |-> [gw[p].response EXCEPT !.headers = NoHeaders],
   lead_id |-> gw[p].response.lead_id, error_code |-> gw[p].response.error,
   processing_time_ms |-> now - gw[p].startTime]

\* requestLogger.ts 143-171 and 79-108: finalizeRequest inserts the audit row
AuditRecord(p) ==
  [request_id |-> gw[p].requestId, api_key_id |-> gw[p].apiKeyId,
   professional_id |-> gw[p].professionalId, method |-> gw[p].method,
   request_body |-> sanitizeRequestBody(gw[p].requestBody),
   response_status |-> gw[p].response.status,
   response_body |-> [gw[p].response EXCEPT !.headers = NoHeaders],
   lead_id |-> gw[p].response.lead_id, error_code |-> gw[p].response.error,
   processing_time_ms |-> now - gw[p].startTime]

\* what the insert into api_request_logs does: the row is stored, the store
\* answers with an error, or the call throws
AuditOutcomes == {"stored", "error", "thrown"}

\* a logRequest without its try/catch and error test: a failed insert
\* becomes the handler's internal error
finalizeRequestPropagating(p) ==
  /\ pc[p] = "gw_finalize"
  /\ \E audit \in AuditOutcomes :
       /\ logs' = IF audit = "stored" THEN Append(logs, AuditRecord(p)) ELSE logs
       /\ gw' = [gw EXCEPT ![p].finalized = @ + 1, ![p].audit = audit,
                           ![p].response = IF audit = "stored" THEN @
                                           ELSE Response(p, 500, "internal_error")]
  /\ pc' = [pc EXCEPT ![p] = "gw_respond"]
  /\ UNCHANGED <<now, callsLeft, envVars, rateVars, keyVars, nextRequestId, san>>

\* logRequest (79-108) swallows both failures of the insert
finalizeRequest(p) ==
  /\ pc[p] = "gw_finalize"
  /\ \E audit \in AuditOutcomes :
       /\ logs' = IF audit = "stored" THEN Append(logs, AuditRecord(p)) ELSE logs
       /\ gw' = [gw EXCEPT ![p].finalized = @ + 1, ![p].audit = audit]
  /\ pc' = [pc EXCEPT ![p] = "gw_respond"]
  /\ UNCHANGED <<now, callsLeft, envVars, rateVars, keyVars, nextRequestId, san>>

\* `return new Response(...)` after the awaited finalizeRequest
GwRespond(p) ==
  /\ pc[p] = "gw_respond"
  /\ gw' = [gw EXCEPT ![p].returned = TRUE]
  /\ pc' = [pc EXCEPT ![p] = "gw_done"]
  /\ UNCHANGED <<now, callsLeft, envVars, rateVars, keyVars, logs, nextRequestId, san>>

\* the invocation is over
GwReturn(p) ==
  /\ pc[p] = "gw_done"
  /\ pc' = [pc EXCEPT ![p] = "idle"]
  /\ gw' = [gw EXCEPT ![p] = GwIdle]
  /\ va' = [va EXCEPT ![p] = VaIdle]
  /\ rl' = [rl EXCEPT ![p] = RlIdle]
  /\ UNCHANGED <<now, callsLeft, envVars, rate_config, tracking, histVars, api_keys, km,
                 nextSecret, story, logs, nextRequestId, san>>

submitLeadApi(p) ==
  \/ GwReceive(p)
  \/ GwAfterAuth(p)
  \/ GwAfterRate(p)
  \/ GwJson(p)
  \/ GwSubmit(p)
  \/ GwCatch(p)
  \/ finalizeRequest(p)
  \/ GwRespond(p)
  \/ GwReturn(p)

\* the wall clock moves forward
Tick ==
  /\ \E t \in Instants : t > now /\ t <= horizon /\ now' = t
  /\ UNCHANGED <<rate_config, tracking, pc, rl, callsLeft, envVars, histVars, keyVars, gwVars>>

\* the ceilings a policy row may carry: small ones, which the calls of one
\* behaviour reach, and one that they never reach
CeilValues == (1..MaxCeil) \cup {DEFAULT_LIMITS.requests_per_day}

CoarseCeilValues == {1, DEFAULT_LIMITS.requests_per_day}

GlobalRow(m, h, d) ==
  [scope |-> "global", scope_id |-> NoTime, is_active |-> TRUE,
   requests_per_minute |-> m, requests_per_hour |-> h, requests_per_day |-> d]

\* no invocation in progress, nothing logged
InitFrames ==
  /\ now = 0
  /\ pc = [p \in Procs |-> "idle"]
  /\ rl = [p \in Procs |-> RlIdle]
  /\ admitted = <<>>
  /\ evaluated = <<>>
  /\ km = [p \in Procs |-> KmIdle]
  /\ va = [p \in Procs |-> VaIdle]
  /\ story = [t \in Tenants |-> "none"]
  /\ gw = [p \in Procs |-> GwIdle]
  /\ logs = <<>>
  /\ nextRequestId = 1
  /\ san = [p \in Procs |-> SanIdle]

InitCalls ==
  /\ InitFrames
  /\ tracking = {}

NextRate == Tick \/ \E p \in Procs : Call(p) \/ checkRateLimit(p) \/ Return(p)

\* concurrent callers of checkRateLimit under a policy whose minute ceiling
\* alone can be reached
InitRate ==
  /\ InitCalls
  /\ callsLeft = MaxCalls
  /\ api_keys = <<>>
  /\ nextSecret = 1
  /\ serial = FALSE
  /\ horizon = MinuteMs
  /\ configured = TRUE
  /\ \E m \in 1..MaxCeil :
       rate_config = {GlobalRow(m, DEFAULT_LIMITS.requests_per_hour, DEFAULT_LIMITS.requests_per_day)}

SpecRate == InitRate /\ [][NextRate]_vars

\* one caller at a time, under any of the policies
InitRateSeq ==
  /\ InitCalls
  /\ callsLeft = MaxCalls
  /\ api_keys = <<>>
  /\ nextSecret = 1
  /\ serial = TRUE
  /\ horizon = DayMs
  /\ configured = TRUE
  /\ \E m \in CeilValues, h \in CoarseCeilValues, d \in CoarseCeilValues :
       rate_config = {GlobalRow(m, h, d)}

SpecRateSeq == InitRateSeq /\ [][NextRate]_vars

\* ---- the key handlers on a store that holds keys already

\* n keys of professional 1, issued at instant 0 with the labels 1..n; the
\* first of them carries the expiry time given
InitialStore(n, expiresAt) ==
  [i \in 1..n |-> KeyRow(i, 1, hashApiKey(GeneratedKey(i)), Label(i), 0,
                         IF i = 1 THEN expiresAt ELSE NoTime)]

KeyTables ==
  /\ InitCalls
  /\ horizon = MinuteMs - 1
  /\ rate_config = {}
  /\ configured = TRUE
  /\ \E n \in {MaxActiveKeys - 1, MaxActiveKeys} :
       /\ api_keys = InitialStore(n, 500)
       /\ nextSecret = n + 1

NextKeys ==
  \/ Tick
  \/ \E p \in Procs :
       \/ StartCreate(p) \/ createApiKey(p)
       \/ StartRevoke(p) \/ revokeApiKey(p)
       \/ KmReturn(p)
       \/ Authenticate(p) \/ validateApiKey(p) \/ AuthReturn(p)

\* concurrent handlers, one call each
InitKeys ==
  /\ KeyTables
  /\ serial = FALSE
  /\ callsLeft = NumProcs

SpecKeys == InitKeys /\ [][NextKeys]_vars

\* one handler at a time
InitKeysSeq ==
  /\ KeyTables
  /\ serial = TRUE
  /\ callsLeft = MaxCalls

SpecKeysSeq == InitKeysSeq /\ [][NextKeys]_vars

\* ---- getRateLimitConfig on the policy tables the schema admits

\* a row of api_rate_limit_config; the minute ceiling tells the rows apart
PolicyRow(scope, scopeId, active, m) ==
  [scope |-> scope, scope_id |-> scopeId, is_active |-> active,
   requests_per_minute |-> m, requests_per_hour |-> DEFAULT_LIMITS.requests_per_hour,
   requests_per_day |-> DEFAULT_LIMITS.requests_per_day]

\* per scope: no row, an inactive row or an active row.  UNIQUE(scope, scope_id)
\* allows one row for key 1 and one for professional 1; the global rows carry
\* a null scope_id and at most one of them is active.
PolicyTables ==
  {k \cup t \cup g :
     k \in {{}} \cup {{PolicyRow("api_key", 1, a, 1)} : a \in BOOLEAN},
     t \in {{}} \cup {{PolicyRow("professional", 1, a, 2)} : a \in BOOLEAN},
     g \in {{}} \cup {{PolicyRow("global", NoTime, a, 3)} : a \in BOOLEAN}
           \cup {{PolicyRow("global", NoTime, FALSE, 4), PolicyRow("global", NoTime, TRUE, 3)}}}

\* checkRateLimit is entered for some credential of some professional
ResolveCall(p) ==
  /\ pc[p] = "idle"
  /\ callsLeft > 0
  /\ serial => p = 1
  /\ callsLeft' = callsLeft - 1
  /\ \E k \in 1..2, t \in Tenants :
       rl' = [rl EXCEPT ![p] = [RlIdle EXCEPT !.apiKeyId = k, !.professionalId = t]]
  /\ pc' = [pc EXCEPT ![p] = "rl_config"]
  /\ UNCHANGED <<now, rate_config, tracking, envVars, histVars, keyVars, gwVars>>

\* the configuration is in hand; the frame is dropped
ResolveReturn(p) ==
  /\ pc[p] = "rl_minuteWindow"
  /\ pc' = [pc EXCEPT ![p] = "idle"]
  /\ rl' = [rl EXCEPT ![p] = RlIdle]
  /\ UNCHANGED <<now, rate_config, tracking, callsLeft, envVars, histVars, keyVars, gwVars>>

InitResolve ==
  /\ InitCalls
  /\ callsLeft = MaxCalls
  /\ api_keys = <<>>
  /\ nextSecret = 1
  /\ serial = TRUE
  /\ horizon = 0
  /\ configured = TRUE
  /\ rate_config \in PolicyTables

NextResolve == \E p \in Procs : ResolveCall(p) \/ RlConfig(p) \/ ResolveReturn(p)

SpecResolve == InitResolve /\ [][NextResolve]_vars

\* ---- sanitizeRequestBody on the bodies a caller may send

InitSanitize ==
  /\ InitCalls
  /\ callsLeft = MaxCalls
  /\ api_keys = <<>>
  /\ nextSecret = 1
  /\ serial = TRUE
  /\ horizon = 0
  /\ configured = TRUE
  /\ rate_config = {}

NextSanitize == \E p \in Procs : SanCall(p) \/ SanSanitize(p) \/ SanAgain(p) \/ SanReturn(p)

SpecSanitize == InitSanitize /\ [][NextSanitize]_vars

\* ---- the gateway on a store that holds keys already

\* key 1 of professional 1 expires at instant 500, key 2 never; key 3 belongs
\* to professional 2 and was revoked at instant 0
GatewayStore ==
  [i \in 1..3 |->
     IF i = 3
     THEN [KeyRow(3, 2, hashApiKey(GeneratedKey(3)), Label(3), 0, NoTime) EXCEPT
             !.is_active = FALSE, !.revoked_at = 0]
     ELSE KeyRow(i, 1, hashApiKey(GeneratedKey(i)), Label(i), 0, IF i = 1 THEN 500 ELSE NoTime)]

InitGateway ==
  /\ InitCalls
  /\ serial = TRUE
  /\ horizon = MinuteMs
  /\ callsLeft = MaxRequests
  /\ configured \in BOOLEAN
  /\ api_keys = GatewayStore
  /\ nextSecret = 4
  /\ \E m \in 1..MaxCeil :
       rate_config = {GlobalRow(m, DEFAULT_LIMITS.requests_per_hour, DEFAULT_LIMITS.requests_per_day)}

NextGateway ==
  \/ Tick
  \/ \E p \in Procs : submitLeadApi(p) \/ validateApiKey(p) \/ checkRateLimit(p)

\* requests to submit-lead-api, one at a time
SpecGateway == InitGateway /\ [][NextGateway]_vars

\* The steps the runtime and the stores take whenever they can be taken.  The
\* completion of submitLead (GwSubmit) is not among them: line 137 awaits it
\* with no timer beside it.
HandlerStep ==
  \E p \in Procs :
    \/ validateApiKey(p) \/ checkRateLimit(p)
    \/ GwAfterAuth(p) \/ GwAfterRate(p) \/ GwJson(p)
    \/ finalizeRequest(p) \/ GwRespond(p) \/ GwReturn(p)

SpecGatewayLive == InitGateway /\ [][NextGateway]_vars /\ WF_vars(HandlerStep)

\* ---- key management and the gateway on one store

InitSecrets ==
  /\ InitCalls
  /\ serial = TRUE
  /\ horizon = MinuteMs - 1
  /\ callsLeft = MaxRequests
  /\ configured = TRUE
  /\ api_keys = GatewayStore
  /\ nextSecret = 4
  /\ rate_config = {GlobalRow(1, DEFAULT_LIMITS.requests_per_hour, DEFAULT_LIMITS.requests_per_day)}

NextSecrets ==
  \/ Tick
  \/ \E p \in Procs :
       \/ StartCreate(p) \/ createApiKey(p)
       \/ StartRevoke(p) \/ revokeApiKey(p)
       \/ StartList(p) \/ LsSelect(p)
       \/ KmReturn(p)
       \/ submitLeadApi(p) \/ validateApiKey(p) \/ checkRateLimit(p)

\* create, revoke, list and submit-lead-api requests, one at a time
SpecSecrets == InitSecrets /\ [][NextSecrets]_vars

\* ---- store operations that fail

\* A store call either resolves with an error result or rejects (throws).
FailureKinds == {"error", "thrown"}

\* apiKeyAuth.ts 58-71 and 118-125: the lookup fails; an error result is
\* answered like an unknown key, an exception is caught inside validateApiKey
VaLookupFails(p) ==
  /\ pc[p] = "va_lookup"
  /\ \E kind \in FailureKinds :
       va' = [va EXCEPT ![p].storeFailed = TRUE,
                        ![p].result = Invalid(IF kind = "error" THEN "invalid_api_key"
                                              ELSE "internal_error")]
  /\ pc' = [pc EXCEPT ![p] = "va_done"]
  /\ UNCHANGED <<now, callsLeft, envVars, rateVars, api_keys, km, nextSecret, story, gwVars>>

\* apiKeyAuth.ts 94-97 and 107-110: the result of either update is not looked
\* at; an exception is caught inside validateApiKey
VaUpdateFails(p) ==
  /\ pc[p] \in {"va_deactivate", "va_touch"}
  /\ \E kind \in FailureKinds :
       va' = [va EXCEPT ![p].storeFailed = TRUE,
                        ![p].result =
                           IF kind = "thrown" THEN Invalid("internal_error")
                           ELSE IF pc[p] = "va_deactivate" THEN Invalid("expired_api_key")
                           ELSE [status |-> "valid", errorCode |-> "",
                                 professionalId |-> TheRow(va[p].data).professional_id,
                                 apiKeyId |-> TheRow(va[p].data).id]]
  /\ pc' = [pc EXCEPT ![p] = "va_done"]
  /\ UNCHANGED <<now, callsLeft, envVars, rateVars, api_keys, km, nextSecret, story, gwVars>>

\* requestLogger.ts 292-322: the select answers with an error; trackingError
\* is not looked at, tracking is null and the three counts stay 0
RlSelectFails(p) ==
  /\ pc[p] = "rl_select"
  /\ rl' = [rl EXCEPT ![p].storeFailed = TRUE, ![p].seen = {},
                      ![p].minuteCount = 0, ![p].hourCount = 0, ![p].dayCount = 0,
                      ![p].retryFrom =
                         IF \/ minuteExceeded(0, rl[p].config) \/ hourExceeded(0, rl[p].config)
                            \/ dayExceeded(0, rl[p].config)
                         THEN retryGranularity(minuteExceeded(0, rl[p].config),
                                               hourExceeded(0, rl[p].config),
                                               dayExceeded(0, rl[p].config))
                         ELSE "none"]
  /\ pc' = [pc EXCEPT ![p] =
              IF \/ minuteExceeded(0, rl[p].config) \/ hourExceeded(0, rl[p].config)
                 \/ dayExceeded(0, rl[p].config)
              THEN "rl_retryEnd" ELSE "rl_stamp"]
  /\ UNCHANGED <<now, rate_config, tracking, callsLeft, envVars, histVars, keyVars, gwVars>>

\* requestLogger.ts 363-381: the upsert answers with an error, which is
\* logged; the call is allowed all the same
RlUpsertFails(p) ==
  /\ pc[p] = "rl_upsert"
  /\ rl' = [rl EXCEPT ![p].storeFailed = TRUE,
                      ![p].result.allowed = "allowed",
                      ![p].result.remaining =
                         << rl[p].config.requests_per_minute - (rl[p].minuteCount + 1),
                            rl[p].config.requests_per_hour - (rl[p].hourCount + 1),
                            rl[p].config.requests_per_day - (rl[p].dayCount + 1) >>]
  /\ pc' = [pc EXCEPT ![p] = "rl_reset"]
  /\ UNCHANGED <<now, rate_config, tracking, callsLeft, envVars, histVars, keyVars, gwVars>>

StoreFails(p) ==
  \/ VaLookupFails(p)
  \/ VaUpdateFails(p)
  \/ RlSelectFails(p)
  \/ RlUpsertFails(p)

\* key 2 has used up its minute ceiling of 1 in the minute window 0
InitGatewayFaults ==
  /\ InitFrames
  /\ tracking = {[identifier |-> 2, identifier_type |-> "api_key",
                  minute_window |-> 0, minute_count |-> 1,
                  hour_window |-> 0, hour_count |-> 1,
                  day_window |-> 0, day_count |-> 1, last_request_at |-> 0]}
  /\ serial = TRUE
  /\ horizon = MinuteMs
  /\ callsLeft = 1
  /\ configured = TRUE
  /\ api_keys = GatewayStore
  /\ nextSecret = 4
  /\ rate_config = {GlobalRow(1, DEFAULT_LIMITS.requests_per_hour, DEFAULT_LIMITS.requests_per_day)}

NextGatewayFaults ==
  \/ Tick
  \/ \E p \in Procs :
       submitLeadApi(p) \/ validateApiKey(p) \/ checkRateLimit(p) \/ StoreFails(p)

\* the gateway on stores whose operations may fail
SpecGatewayFaults == InitGatewayFaults /\ [][NextGatewayFaults]_vars

\* ---------------------------------------------------------------- claims

Min(a, b) == IF a < b THEN a ELSE b

Quiescent == \A p \in Procs : pc[p] = "idle"

Denied(p) == pc[p] = "rl_done" /\ rl[p].result.allowed = "denied"

Allowed(p) == pc[p] = "rl_done" /\ rl[p].result.allowed = "allowed"

\* the minute ceiling of the policy in force (one global row in these specifications)
MinuteCeiling == getRateLimitConfig(rate_config, 1, 1).requests_per_minute

\* C1: with a minute ceiling K (hour and day ceilings out of reach), the calls
\* evaluated against one minute window are admitted at most K times, and once
\* N calls have finished exactly min(K, N) of them were Allowed.
C1_ExactlyKAdmitted ==
  \A w \in DOMAIN evaluated :
    /\ Count(admitted, w) <= MinuteCeiling
    /\ Quiescent => Count(admitted, w) = Min(MinuteCeiling, evaluated[w])

\* C6: no step of a call that is denied writes the tracking table: counts,
\* window starts and last_request_at of the row stay as they were.
C6_DeniedLeavesCounterUnchanged ==
  [][\A p \in Procs :
       (pc'[p] # pc[p] /\ (rl[p].retryFrom # "none" \/ rl'[p].retryFrom # "none"))
         => tracking' = tracking]_vars

C6_Witness ==
  \E p \in Procs : Denied(p) /\ rl[p].seen # {} /\ tracking = rl[p].seen

\* C7: while the hour and day ceilings are not reached, a call is Allowed
\* exactly while fewer than K calls were admitted in its own minute window:
\* a count of K reached in an earlier minute window does not deny it, and the
\* call after the K-th of the new window is Denied.
C7_MinuteRollover ==
  \A p \in Procs :
    (pc[p] = "rl_done" /\ rl[p].hourCount < rl[p].config.requests_per_hour
                       /\ rl[p].dayCount < rl[p].config.requests_per_day)
      => /\ Allowed(p) => Count(admitted, rl[p].minuteWindow) <= rl[p].config.requests_per_minute
         /\ Denied(p) => Count(admitted, rl[p].minuteWindow) = rl[p].config.requests_per_minute

C7_Witness ==
  \E p \in Procs : \E w \in DOMAIN admitted :
    /\ Denied(p)
    /\ rl[p].retryFrom = "minute"
    /\ w < rl[p].minuteWindow
    /\ getWindowStart("hour", w) = rl[p].hourWindow
    /\ admitted[w] = rl[p].config.requests_per_minute
    /\ Count(admitted, rl[p].minuteWindow) = rl[p].config.requests_per_minute

\* C8: the retry-after of a Denied decision is computed from the end of the
\* day window when the day ceiling is met, else of the hour window when the
\* hour ceiling is met, else of the minute window.
CoarsestExceeded(p) ==
  IF rl[p].dayCount >= rl[p].config.requests_per_day THEN "day"
  ELSE IF rl[p].hourCount >= rl[p].config.requests_per_hour THEN "hour"
  ELSE "minute"

C8_RetryFromCoarsest ==
  \A p \in Procs :
    Denied(p) =>
      /\ rl[p].windowEnd = getWindowEnd(CoarsestExceeded(p), rl[p].retryEndAt)
      /\ rl[p].result.retryAfter = MathCeilDiv(rl[p].windowEnd - rl[p].retryNow, MsPerSecond)

\* a denial with the minute and the hour ceiling both met
C8_Witness ==
  \E p \in Procs :
    /\ Denied(p)
    /\ rl[p].minuteCount >= rl[p].config.requests_per_minute
    /\ rl[p].hourCount >= rl[p].config.requests_per_hour
    /\ rl[p].dayCount < rl[p].config.requests_per_day
    /\ rl[p].windowEnd = getWindowEnd("hour", rl[p].retryEndAt)

\* C2: validateApiKey answers valid only for a key whose digest is that of a
\* credential which, in the store as the lookup read it, was active, not
\* revoked and not past its expiry; the ids returned are that credential's.
C2_AuthenticateOnlyValid ==
  \A p \in Procs :
    (pc[p] = "va_done" /\ va[p].result.status = "valid") =>
      \E i \in DOMAIN va[p].storeAtLookup :
        LET c == va[p].storeAtLookup[i]
        IN  /\ c.key_hash = hashApiKey(va[p].apiKey)
            /\ c.is_active
            /\ c.revoked_at = NoTime
            /\ ~(c.expires_at # NoTime /\ c.expires_at < va[p].lookupAt)
            /\ va[p].result.apiKeyId = c.id
            /\ va[p].result.professionalId = c.professional_id

\* a valid answer for a credential that was revoked after the lookup
C2_Witness ==
  \E p \in Procs :
    /\ pc[p] = "va_done"
    /\ va[p].result.status = "valid"
    /\ api_keys[va[p].result.apiKeyId].revoked_at # NoTime

\* C4: no professional has more than 5 active keys.
C4_AtMostFiveActive ==
  \A t \in Tenants : Cardinality(ActiveKeys(api_keys, t)) <= MaxActiveKeys

\* C5: a create for a professional with 5 active keys is refused with the
\* quota error and inserts nothing; the create that follows a revocation made
\* after such a refusal succeeds (its label, if any, being carried by no
\* active key of the professional).
C5_QuotaThenRevokeThenIssue ==
  \A p \in Procs :
    (pc[p] = "km_done" /\ km[p].op = "create" /\ km[p].professionalId # 0) =>
      /\ km[p].count >= MaxActiveKeys =>
           (km[p].status = 400 /\ km[p].error = "quota" /\ Len(api_keys) = km[p].lenAtStart)
      /\ ( /\ km[p].following
           /\ km[p].count < MaxActiveKeys
           /\ \/ km[p].name = 0
              \/ \A r \in ActiveKeys(api_keys, km[p].professionalId) :
                    r.id # km[p].keyId => r.name # Label(km[p].name) )
           => km[p].status = 201

\* ---- gateway

\* a request the handler has answered, the CORS preflight aside
Answered(p) == pc[p] = "gw_done" /\ gw[p].method # "OPTIONS"

\* C3: every inbound call, whatever its path (an exception thrown at any
\* stage included), has had finalizeRequest invoked exactly once when the
\* handler is through with it.
C3_FinalizedExactlyOnce ==
  \A p \in Procs : Answered(p) => gw[p].finalized = 1

\* the part of C3 that the try block does give: a request that got past
\* getSupabaseClient is finalized once, and before the response returns
FinalizedOnceInsideTry ==
  \A p \in Procs :
    /\ gw[p].finalized <= 1
    /\ gw[p].entered /\ gw[p].returned => gw[p].finalized = 1

\* C9: a 429 caused by the minute ceiling alone carries a Retry-After equal
\* to the seconds, rounded up, from the decision's clock reading to the end
\* of the minute window the decision was evaluated against.
C9_RetryAfterNextMinute ==
  \A p \in Procs :
    (/\ gw[p].response.status = 429
     /\ rl[p].retryFrom = "minute")
    => gw[p].response.retry_after =
         MathCeilDiv(rl[p].minuteWindow + MinuteMs - rl[p].retryNow, MsPerSecond)

\* the same with the window end the code computes, from its own clock reading
RetryAfterFromLaterReading ==
  \A p \in Procs :
    (/\ gw[p].response.status = 429
     /\ rl[p].retryFrom = "minute")
    => gw[p].response.retry_after =
         MathCeilDiv(getWindowEnd("minute", rl[p].retryEndAt) - rl[p].retryNow, MsPerSecond)

ExpiringKey == GeneratedKey(1)

ExpiredLogged ==
  \E i \in DOMAIN logs : logs[i].error_code = "expired_api_key"

\* C10: the request that presents a key past its expiry is answered 401
\* expired_api_key and the key's row is stored with is_active = false; no
\* validation of that key made after such an answer succeeds.
C10_ExpiryDeactivationPersisted ==
  \A p \in Procs :
    /\ (gw[p].response.status = 401 /\ gw[p].response.error = "expired_api_key")
         => ~api_keys[TheRow(va[p].data).id].is_active
    /\ va[p].result.errorCode = "expired_api_key"
         => ~api_keys[TheRow(va[p].data).id].is_active
    /\ (ExpiredLogged /\ va[p].apiKey = ExpiringKey) => va[p].result.status # "valid"

C10_Witness ==
  /\ ExpiredLogged
  /\ ~api_keys[1].is_active
  /\ \E p \in Procs :
       /\ pc[p] = "va_done"
       /\ va[p].apiKey = ExpiringKey
       /\ va[p].result.errorCode = "inactive_api_key"

\* ---- key lifecycle

\* C11: a key row whose is_active has become false is never active again,
\* and a revoked_at once set is never cleared, whatever the interleaving of
\* create, validate and revoke.
C11_NeverReactivated ==
  [][\A i \in DOMAIN api_keys :
       /\ ~api_keys[i].is_active => ~api_keys'[i].is_active
       /\ api_keys[i].revoked_at # NoTime => api_keys'[i].revoked_at # NoTime]_vars

\* a revoked row that a validation, begun before the revocation, has stamped
C11_Witness ==
  \E i \in DOMAIN api_keys :
    /\ ~api_keys[i].is_active
    /\ api_keys[i].revoked_at # NoTime
    /\ api_keys[i].last_used_at # NoTime
    /\ api_keys[i].last_used_at >= api_keys[i].revoked_at

\* C12: the stored last_used_at of a key never decreases, also when two
\* validations of the same key interleave their clock readings and writes.
C12_LastUsedMonotone ==
  [][\A i \in DOMAIN api_keys :
       api_keys'[i].last_used_at >= api_keys[i].last_used_at]_vars

\* ---- policy resolution

ActivePolicies(scope, scopeId) ==
  {r \in rate_config : r.scope = scope /\ r.scope_id = scopeId /\ r.is_active}

Ceilings(r) == <<r.requests_per_minute, r.requests_per_hour, r.requests_per_day>>

\* the ceilings the resolution order prescribes for credential k of tenant t
Prescribed(k, t) ==
  IF ActivePolicies("api_key", k) # {}
  THEN {Ceilings(r) : r \in ActivePolicies("api_key", k)}
  ELSE IF ActivePolicies("professional", t) # {}
  THEN {Ceilings(r) : r \in ActivePolicies("professional", t)}
  ELSE IF ActivePolicies("global", NoTime) # {}
  THEN {Ceilings(r) : r \in ActivePolicies("global", NoTime)}
  ELSE {<<60, 1000, 10000>>}

Resolved(p) == pc[p] = "rl_minuteWindow"

\* C13: getRateLimitConfig returns the ceilings of the active key-scoped
\* row, else of the active professional-scoped row, else of the active global
\* row, else 60/1000/10000; an inactive row shadows nothing; no table is
\* written.
C13_ResolutionOrder ==
  /\ [](\A p \in Procs :
          Resolved(p) => Ceilings(rl[p].config) \in Prescribed(rl[p].apiKeyId, rl[p].professionalId))
  /\ [][rate_config' = rate_config /\ tracking' = tracking /\ api_keys' = api_keys
          /\ logs' = logs]_vars

\* resolved from the professional's row past an inactive row of the key
C13_Witness ==
  \E p \in Procs :
    /\ Resolved(p)
    /\ \E r \in rate_config : r.scope = "api_key" /\ r.scope_id = rl[p].apiKeyId /\ ~r.is_active
    /\ ActivePolicies("professional", rl[p].professionalId) # {}
    /\ ActivePolicies("global", NoTime) # {}
    /\ rl[p].config.requests_per_minute = 2

\* C14: a revoke of an id that is not stored is answered 404, of a key of
\* another professional 403, of an own key that is inactive (a revoked one
\* in particular) 400 "already inactive"; these answers leave api_keys as it
\* was, and only a revoke that read its own key active goes on to the update.
C14_RevokeRejections ==
  [][\A p \in Procs :
       (pc[p] = "rk_select" /\ pc'[p] # "rk_select") =>
         LET id == km[p].keyId
             stored == id \in DOMAIN api_keys
             own == stored /\ api_keys[id].professional_id = km[p].professionalId
         IN  /\ ~stored => km'[p].status = 404
             /\ (stored /\ ~own) => km'[p].status = 403
             /\ (own /\ ~api_keys[id].is_active) =>
                  (km'[p].status = 400 /\ km'[p].error = "already_inactive")
             /\ (own /\ api_keys[id].revoked_at # NoTime) => km'[p].status = 400
             /\ pc'[p] = "km_done" => (km'[p].status \in {404, 403, 400} /\ api_keys' = api_keys)
             /\ pc'[p] = "rk_update" => (own /\ api_keys[id].is_active)]_vars

\* the second revoke of a key, after the one that revoked it
C14_Witness ==
  \E p \in Procs :
    /\ pc[p] = "km_done"
    /\ km[p].op = "revoke"
    /\ km[p].status = 400
    /\ km[p].error = "already_inactive"
    /\ api_keys[km[p].keyId].revoked_at # NoTime

\* C15: a validation that finds the row of a key revoked by revoke-api-key
\* answers revoked_api_key (which the gateway returns with status 401).
C15_RevokedKeyReported ==
  \A p \in Procs :
    (/\ pc[p] = "va_done"
     /\ va[p].data # {}
     /\ TheRow(va[p].data).revoked_at # NoTime)
    => va[p].result.errorCode = "revoked_api_key"

\* what the code answers instead: the row is inactive, and that is checked first
RevokedKeyReportedInactive ==
  \A p \in Procs :
    (/\ pc[p] = "va_done"
     /\ va[p].data # {}
     /\ TheRow(va[p].data).revoked_at # NoTime)
    => va[p].result.errorCode = "inactive_api_key"

\* ---- gateway, continued

\* C16: every request that entered the pipeline is eventually finalized,
\* also when submitLead does not complete.
C16_EveryCallLogged ==
  \A p \in Procs : gw[p].entered ~> (gw[p].finalized = 1)

\* the same, for the requests that do not come to await submitLead
LoggedUnlessDelegated ==
  \A p \in Procs : gw[p].entered ~> (gw[p].finalized = 1 \/ pc[p] = "gw_submit")

\* C17: whatever the insert of the audit row does, finalizeRequest hands the
\* response over as it was decided, and that response is the one returned.
C17_AuditFailureInvisible ==
  [][\A p \in Procs :
       (pc[p] \in {"gw_finalize", "gw_respond"} /\ pc'[p] # pc[p]) =>
         /\ gw'[p].response = gw[p].response
         /\ pc[p] = "gw_finalize" => pc'[p] = "gw_respond"
         /\ pc[p] = "gw_respond" => (pc'[p] = "gw_done" /\ gw'[p].returned)]_vars

\* a lead created and answered 201 although the insert of the audit row threw
C17_Witness ==
  \E p \in Procs :
    /\ pc[p] = "gw_done"
    /\ gw[p].returned
    /\ gw[p].audit = "thrown"
    /\ gw[p].response.status = 201
    /\ \A i \in DOMAIN logs : logs[i].request_id # gw[p].requestId

\* the stage of the pipeline a position of the handler belongs to
StageOf(at) ==
  IF at = "idle" THEN 0
  ELSE IF at \in {"va_enter", "va_lookup", "va_check", "va_deactivate", "va_touch", "va_done"} THEN 1
  ELSE IF at \in {"gw_json", "gw_submit"} THEN 3
  ELSE IF at \in {"gw_finalize", "gw_respond", "gw_done"} THEN 4
  ELSE 2

\* C18: the handler only moves forward through key validation, rate check,
\* delegation and logging; checkRateLimit is entered only with a valid key,
\* submitLead only with a valid key and an Allowed decision; a 401 or 429 is
\* decided before the body is read, goes straight to finalizeRequest and
\* carries no lead.
C18_StagesMoveForward ==
  [][\A p \in Procs :
       pc'[p] # pc[p] =>
         /\ pc'[p] = "idle" \/ StageOf(pc'[p]) >= StageOf(pc[p])
         /\ pc'[p] = "idle" => pc[p] = "gw_done"
         /\ pc'[p] = "rl_config" => (pc[p] = "va_done" /\ va[p].result.status = "valid")
         /\ StageOf(pc'[p]) = 3 =>
              (va[p].result.status = "valid" /\ rl[p].result.allowed = "allowed")
         /\ gw'[p].response.status \in {401, 429} =>
              /\ StageOf(pc[p]) # 3
              /\ StageOf(pc'[p]) = 4
              /\ gw'[p].response.lead_id = 0
         /\ gw'[p].response.lead_id # gw[p].response.lead_id =>
              (pc[p] = "gw_submit" \/ pc'[p] = "idle")]_vars

\* a request denied by the rate limiter, after one that went through to a lead
C18_Witness ==
  \E p \in Procs :
    /\ pc[p] = "gw_done"
    /\ gw[p].response.status = 429
    /\ va[p].result.status = "valid"
    /\ \E i \in DOMAIN logs : logs[i].response_status = 201 /\ logs[i].lead_id # 0

\* C19: a request during which a store operation of validateApiKey or of
\* checkRateLimit failed is answered 500 internal_error; it is not answered
\* 401 and its rate decision is not Allowed.
C19_StoreFailureIsInternalError ==
  \A p \in Procs :
    (gw[p].entered /\ (va[p].storeFailed \/ rl[p].storeFailed)) =>
      /\ rl[p].result.allowed # "allowed"
      /\ gw[p].response.status # 0 =>
           (gw[p].response.status = 500 /\ gw[p].response.error = "internal_error")

\* what does lead to 500: an exception inside checkRateLimit or submitLead
ThrownInsideTryIsInternalError ==
  [][\A p \in Procs :
       (pc[p] \in {"rl_select", "rl_upsert"} /\ pc'[p] = "gw_finalize") =>
         (gw'[p].response.status = 500 /\ gw'[p].response.error = "internal_error")]_vars

\* a response to a request for which checkRateLimit returned a decision
RateCheckedResponse(p) ==
  gw[p].response.status # 0 /\ rl[p].result.allowed # "pending"

\* C20: every response to a rate-checked request carries, per granularity,
\* a limit header equal to the ceiling of the resolved policy and a remaining
\* header equal to the decision's remaining quota; a denial has status 429
\* and Retry-After equal to the decision's retry-after.
C20_HeadersCarryPolicy ==
  \A p \in Procs :
    RateCheckedResponse(p) =>
      /\ gw[p].response.headers.limit =
           <<rl[p].config.requests_per_minute, rl[p].config.requests_per_hour,
             rl[p].config.requests_per_day>>
      /\ gw[p].response.headers.remaining = rl[p].result.remaining
      /\ rl[p].result.allowed = "denied" =>
           (gw[p].response.status = 429 /\ gw[p].response.retry_after = rl[p].result.retryAfter)

\* what the headers do carry: the literals, and the decision's remaining
\* quota and retry-after, on every response short of the 500 of the catch
HeadersCarryLiterals ==
  \A p \in Procs :
    (RateCheckedResponse(p) /\ gw[p].response.status # 500) =>
      /\ gw[p].response.headers.limit = <<60, 1000, 10000>>
      /\ gw[p].response.headers.remaining = rl[p].result.remaining
      /\ rl[p].result.allowed = "denied" =>
           (gw[p].response.status = 429 /\ gw[p].response.retry_after = rl[p].result.retryAfter)

\* ---- request ids

Sanitized(p) == pc[p] \in {"san_second", "san_done"}

HasStringPhone(body) ==
  /\ body.json = "object"
  /\ "client_phone" \in DOMAIN body.value
  /\ body.value.client_phone.type = "string"

NoSensitiveField(body) ==
  body.json = "object" => DOMAIN body.value \cap SensitiveFields = {}

\* same length, '*' everywhere but in the last four places, which are kept
MaskedKeepingLastFour(phone, out) ==
  /\ Len(out) = Len(phone)
  /\ \A i \in 1..Len(phone) :
       IF i <= Len(phone) - 4 THEN out[i] = "*" ELSE out[i] = phone[i]

\* the claim as stated: a phone string of any length is masked to its own
\* length with its last four characters kept
C22_PhoneMaskedAnyLength ==
  \A p \in Procs :
    Sanitized(p) =>
      /\ NoSensitiveField(san[p].sanitized)
      /\ HasStringPhone(san[p].given) =>
           MaskedKeepingLastFour(san[p].given.value.client_phone.chars,
                                 san[p].sanitized.value.client_phone.chars)

\* C22: the result of sanitizeRequestBody has none of the fields password,
\* token and api_key; a client_phone string of more than four characters is
\* masked to a string of the same length, '*' in every place but the last
\* four, which are kept; a client_phone string of one to four characters
\* becomes "****"; an empty one stays empty.
C22_PhoneMasked ==
  \A p \in Procs :
    Sanitized(p) =>
      /\ NoSensitiveField(san[p].sanitized)
      /\ HasStringPhone(san[p].given) =>
           LET phone == san[p].given.value.client_phone.chars
               out == san[p].sanitized.value.client_phone.chars
           IN  /\ Len(phone) > 4 => MaskedKeepingLastFour(phone, out)
               /\ Len(phone) \in 1..4 => out = <<"*", "*", "*", "*">>
               /\ Len(phone) = 0 => out = phone

\* a phone of three characters, in a body that also carries a token
C22_Witness ==
  \E p \in Procs :
    /\ Sanitized(p)
    /\ HasStringPhone(san[p].given)
    /\ Len(san[p].given.value.client_phone.chars) = 3
    /\ "token" \in DOMAIN san[p].given.value
    /\ san[p].sanitized.value.client_phone.chars = <<"*", "*", "*", "*">>
    /\ "token" \notin DOMAIN san[p].sanitized.value

\* C23: sanitizeRequestBody returns for every body (null, a number, an
\* object with or without client_phone and the sensitive fields), its result
\* is null or an object, the caller's object is after the call what it was
\* before it, and sanitizing the result again gives the result.
C23_SanitizeTotalPureIdempotent ==
  \A p \in Procs :
    /\ pc[p] = "san_first" => ENABLED SanSanitize(p)
    /\ san[p].body = san[p].given
    /\ Sanitized(p) => san[p].sanitized.json \in {"null", "object"}
    /\ pc[p] = "san_done" => san[p].again = san[p].sanitized

\* a body whose sanitized copy differs from it in the phone and in a field
C23_Witness ==
  \E p \in Procs :
    /\ pc[p] = "san_done"
    /\ HasStringPhone(san[p].given)
    /\ Len(san[p].given.value.client_phone.chars) > 4
    /\ "api_key" \in DOMAIN san[p].given.value
    /\ san[p].sanitized # san[p].given
    /\ san[p].body = san[p].given
    /\ san[p].again = san[p].sanitized

\* ---- the accepted lead

\* the field client_phone holds the phone as the caller sent it
HoldsPhone(body) ==
  /\ body.json = "object"
  /\ "client_phone" \in DOMAIN body.value
  /\ body.value.client_phone = JsonString(Phone)

\* C24: a request whose key is valid, which the rate limiter allows and
\* whose payload submitLead accepts is answered 201 with the lead id; the
\* audit row stored for it has response_status 201, that lead id, the id of
\* the key and of its professional, and a request_body whose client_phone is
\* the masked phone; no audit row holds the phone as it was sent.
C24_AcceptedLeadAudited ==
  /\ \A p \in Procs :
       gw[p].submitted = "created" =>
         /\ va[p].result.status = "valid"
         /\ rl[p].result.allowed = "allowed"
         /\ gw[p].response.status = 201
         /\ gw[p].response.lead_id # 0
         /\ gw[p].audit = "stored" =>
              \E i \in DOMAIN logs :
                /\ logs[i].request_id = gw[p].requestId
                /\ logs[i].response_status = 201
                /\ logs[i].lead_id = gw[p].response.lead_id
                /\ logs[i].api_key_id = va[p].result.apiKeyId
                /\ logs[i].professional_id = api_keys[va[p].result.apiKeyId].professional_id
                /\ HoldsPhone(gw[p].requestBody) =>
                     logs[i].request_body.value.client_phone
                       = JsonString(<<"*", "*", "*", "*", "*", "*", "4", "5", "6", "7">>)
  /\ \A i \in DOMAIN logs : ~HoldsPhone(logs[i].request_body)

\* the 201 of a request that sent a phone and a token, stored in the log
C24_Witness ==
  \E p \in Procs : \E i \in DOMAIN logs :
    /\ pc[p] = "gw_done"
    /\ gw[p].submitted = "created"
    /\ HoldsPhone(gw[p].requestBody)
    /\ "token" \in DOMAIN gw[p].requestBody.value
    /\ logs[i].request_id = gw[p].requestId
    /\ logs[i].response_status = 201
    /\ logs[i].request_body =
         ObjectBody([payload |-> "good",
                     client_phone |-> JsonString(<<"*", "*", "*", "*", "*", "*", "4", "5", "6", "7">>)])

\* ---- labels

\* a create with a name, made with a valid bearer token, has its answer
LabelledCreateDone(p) ==
  pc[p] = "km_done" /\ km[p].op = "create" /\ km[p].name # 0 /\ km[p].professionalId # 0

NoTwoActiveWithOneLabel ==
  \A t \in Tenants : \A r1, r2 \in ActiveKeys(api_keys, t) :
    r1.name = r2.name => r1 = r2

\* the claim as stated: a create with a name is answered with the duplicate
\* name error exactly when, as the call arrived, an active key of the
\* professional carried that name
C25_DuplicateExactlyWhenCarried ==
  /\ NoTwoActiveWithOneLabel
  /\ \A p \in Procs :
       LabelledCreateDone(p) => (km[p].error = "duplicate_name" <=> km[p].carried)

\* C25: no professional has two active keys with the same name, also after
\* concurrent creates with one name; a create that counted fewer than 5
\* active keys is answered with the duplicate name error exactly when its
\* select finds an active key of the professional with that name, and then
\* inserts nothing; no other step gives that error.
C25_LabelUniqueAmongActive ==
  /\ []NoTwoActiveWithOneLabel
  /\ [][\A p \in Procs :
          /\ (pc[p] = "ck_existing" /\ pc'[p] # pc[p]) =>
               /\ km[p].count < MaxActiveKeys
               /\ (km'[p].error = "duplicate_name")
                    <=> (\E r \in ActiveKeys(api_keys, km[p].professionalId) :
                           r.name = Label(km[p].name))
               /\ km'[p].error = "duplicate_name" =>
                    (pc'[p] = "km_done" /\ km'[p].status = 400 /\ api_keys' = api_keys)
          /\ (km'[p].error = "duplicate_name" /\ km[p].error # "duplicate_name") =>
               pc[p] = "ck_existing"]_vars

\* two concurrent creates with one new name: one key is stored, the other
\* insert is refused by the store
C25_Witness ==
  \E p, q \in Procs :
    /\ LabelledCreateDone(p) /\ LabelledCreateDone(q)
    /\ km[p].name = km[q].name
    /\ km[p].professionalId = km[q].professionalId
    /\ ~km[p].carried /\ ~km[q].carried
    /\ km[p].status = 201
    /\ km[q].error = "create_failed"
    /\ Cardinality({r \in ActiveKeys(api_keys, km[p].professionalId) :
                      r.name = Label(km[p].name)}) = 1

\* ---- tracking rows

\* C26: api_rate_limit_tracking never holds two rows for one credential,
\* also after two concurrent calls that both found no row.
C26_OneCounterRowPerKey ==
  \A r1, r2 \in tracking :
    (r1.identifier = r2.identifier /\ r1.identifier_type = r2.identifier_type) => r1 = r2

\* two calls that both selected no row have both made their upsert, at
\* different instants
C26_Witness ==
  \E p, q \in Procs :
    /\ p # q
    /\ Allowed(p) /\ Allowed(q)
    /\ rl[p].seen = {} /\ rl[q].seen = {}
    /\ rl[p].lastRequestAt # rl[q].lastRequestAt
    /\ Cardinality(tracking) = 1

\* ---- the plaintext key

\* the text of the caller's key, where the caller repeats it in the body
KeyText == JsonString(<<"k">>)

KeyColumns ==
  {"id", "professional_id", "key_prefix", "key_hash", "name", "is_active", "created_at",
   "last_used_at", "expires_at", "revoked_at"}

\* the fields of a body that hold JSON values (payload stands for the rest)
JsonFields(body) == DOMAIN body.value \ {"payload"}

\* C27: the key generated by create-api-key is in the response of that
\* create alone, and belongs to the one row the create stored; a row of
\* api_keys holds the digest and the constant prefix, never the key; a
\* tracking row is identified by the id of a key; no audit row holds the text
\* of the key; what list-api-keys returns has neither key_hash nor the key.
C27_PlaintextOnlyInIssueResponse ==
  /\ \A p \in Procs :
       km[p].api_key # EmptyKey =>
         /\ km[p].op = "create" /\ km[p].status = 201 /\ pc[p] = "km_done"
         /\ km[p].api_key = km[p].fullKey
         /\ \A i \in DOMAIN api_keys :
              api_keys[i].key_hash = hashApiKey(km[p].api_key) <=> i = km[p].keyId
         /\ \A q \in Procs \ {p} : km[q].api_key # km[p].api_key
  /\ \A i \in DOMAIN api_keys :
       /\ DOMAIN api_keys[i] = KeyColumns
       /\ api_keys[i].key_prefix = "ofair_pk"
       /\ \E secret \in 1..nextSecret : api_keys[i].key_hash = hashApiKey(GeneratedKey(secret))
       /\ api_keys[i].name[1] \in {"label", "API Key"}
  /\ \A r \in tracking : r.identifier \in DOMAIN api_keys
  /\ \A i \in DOMAIN logs :
       /\ logs[i].api_key_id \in {0} \cup DOMAIN api_keys
       /\ logs[i].request_body.json = "object" =>
            /\ "api_key" \notin DOMAIN logs[i].request_body.value
            /\ \A f \in JsonFields(logs[i].request_body) : logs[i].request_body.value[f] # KeyText
  /\ \A p \in Procs : \A key \in km[p].keys :
       /\ DOMAIN key \cap {"key_hash", "api_key", "fullKey"} = {}
       /\ key.key_display = <<"ofair_pk", "_****">>

\* a request that repeats its key in the body is logged, after a create
\* that stored a fourth key
C27_Witness ==
  \E p \in Procs : \E i \in DOMAIN logs :
    /\ pc[p] = "gw_done"
    /\ gw[p].requestBody.json = "object"
    /\ "api_key" \in DOMAIN gw[p].requestBody.value
    /\ gw[p].requestBody.value.api_key = KeyText
    /\ logs[i].request_id = gw[p].requestId
    /\ logs[i].request_body.json = "object"
    /\ Len(api_keys) = 4
    /\ api_keys[4].key_hash = hashApiKey(GeneratedKey(4))

\* ---- the collaborator's store

\* C28: a request whose submitLead returned the error code database_error
\* (the insert of the lead failed) is answered with status 500.
C28_DatabaseErrorIs500 ==
  \A p \in Procs :
    gw[p].submitted = "database_error" => gw[p].response.status = 500

\* what the handler answers: 400, with the collaborator's error code
DatabaseErrorAnswered400 ==
  \A p \in Procs :
    gw[p].submitted = "database_error" =>
      (gw[p].response.status = 400 /\ gw[p].response.error = "database_error")

\* ---- the order of the checks of validateApiKey

LastUsed(table) == [i \in DOMAIN table |-> table[i].last_used_at]

\* C29: validateApiKey answers missing_api_key, else invalid_api_key_format,
\* with no operation on api_keys; else invalid_api_key when no row has the
\* digest; else, on the row read, inactive_api_key when is_active is false,
\* else revoked_api_key when revoked_at is set, else expired_api_key when
\* expires_at has passed; a step that gives an invalid answer leaves every
\* last_used_at as it was.
C29_ChecksInOrder ==
  /\ [](\A p \in Procs :
          va[p].result.errorCode \in {"missing_api_key", "invalid_api_key_format"}
            => (va[p].data = {} /\ va[p].lookupAt = NoTime))
  /\ [][\A p \in Procs :
          pc'[p] # pc[p] =>
            /\ pc[p] = "va_enter" =>
                 /\ api_keys' = api_keys
                 /\ va[p].apiKey = EmptyKey =>
                      (pc'[p] = "va_done" /\ va'[p].result = Invalid("missing_api_key"))
                 /\ (va[p].apiKey # EmptyKey /\ ~MatchesKeyFormat(va[p].apiKey)) =>
                      (pc'[p] = "va_done" /\ va'[p].result = Invalid("invalid_api_key_format"))
                 /\ MatchesKeyFormat(va[p].apiKey) => pc'[p] = "va_lookup"
            /\ pc[p] = "va_lookup" =>
                 /\ api_keys' = api_keys
                 /\ (\A r \in Rows(api_keys) : r.key_hash # hashApiKey(va[p].apiKey)) =>
                      (pc'[p] = "va_done" /\ va'[p].result = Invalid("invalid_api_key"))
                 /\ (\E r \in Rows(api_keys) : r.key_hash = hashApiKey(va[p].apiKey)) =>
                      pc'[p] = "va_check"
            /\ pc[p] = "va_check" =>
                 LET data == TheRow(va[p].data)
                     expired == data.expires_at # NoTime /\ data.expires_at < now
                 IN  /\ api_keys' = api_keys
                     /\ ~data.is_active =>
                          (pc'[p] = "va_done" /\ va'[p].result = Invalid("inactive_api_key"))
                     /\ (data.is_active /\ data.revoked_at # NoTime) =>
                          (pc'[p] = "va_done" /\ va'[p].result = Invalid("revoked_api_key"))
                     /\ (data.is_active /\ data.revoked_at = NoTime /\ expired) =>
                          pc'[p] = "va_deactivate"
                     /\ (data.is_active /\ data.revoked_at = NoTime /\ ~expired) =>
                          pc'[p] = "va_touch"
            /\ pc[p] = "va_deactivate" =>
                 (pc'[p] = "va_done" /\ va'[p].result = Invalid("expired_api_key"))
            /\ (pc'[p] = "va_done" /\ va'[p].result.status = "invalid") =>
                 LastUsed(api_keys') = LastUsed(api_keys)]_vars

\* a key that was never used is answered expired, and is still never used
C29_Witness ==
  \E p \in Procs :
    /\ pc[p] = "va_done"
    /\ va[p].result.errorCode = "expired_api_key"
    /\ ~api_keys[TheRow(va[p].data).id].is_active
    /\ api_keys[TheRow(va[p].data).id].revoked_at = NoTime
    /\ api_keys[TheRow(va[p].data).id].last_used_at = NoTime

\* ---- one reading of the clock

\* what a decision carries when all of it is computed from the reading t
FromOneReading(p, t) ==
  /\ rl[p].minuteWindow = getWindowStart("minute", t)
  /\ rl[p].hourWindow = getWindowStart("hour", t)
  /\ rl[p].dayWindow = getWindowStart("day", t)
  /\ rl[p].result.reset =
       <<getWindowEnd("minute", t), getWindowEnd("hour", t), getWindowEnd("day", t)>>
  /\ Denied(p) =>
       rl[p].result.retryAfter = MathCeilDiv(getWindowEnd(rl[p].retryFrom, t) - t, MsPerSecond)

\* C30: a decision of checkRateLimit has its three window starts, its three
\* reset timestamps and its retry-after computed from one reading of the
\* clock: the minute window lies in the hour window and the hour window in
\* the day window, and each reset is the window start of the decision plus
\* the window length, also when the clock crosses a boundary meanwhile.
C30_OneCapturedTime ==
  \A p \in Procs :
    pc[p] = "rl_done" =>
      /\ \E t \in Instants : FromOneReading(p, t)
      /\ rl[p].hourWindow <= rl[p].minuteWindow
      /\ rl[p].minuteWindow + MinuteMs <= rl[p].hourWindow + HourMs
      /\ rl[p].dayWindow <= rl[p].hourWindow
      /\ rl[p].hourWindow + HourMs <= rl[p].dayWindow + DayMs
      /\ rl[p].result.reset =
           <<rl[p].minuteWindow + MinuteMs, rl[p].hourWindow + HourMs, rl[p].dayWindow + DayMs>>

\* ---- the stored windows

\* the tracking row of the credential of the call of p
RowOf(p) == {r \in tracking : r.identifier = rl[p].apiKeyId /\ r.identifier_type = "api_key"}

\* the row the select of p read had its window of this granularity passed
LogicallyReset(p, windowField, window) ==
  rl[p].seen # {} /\ TheRow(rl[p].seen)[windowField] < window

\* C31: every window start stored in a tracking row is a whole minute, hour
\* or day; after an Allowed decision the row of the credential holds the
\* window starts that decision computed, and a count of 1 for each
\* granularity whose stored window had passed.
C31_StoredWindowsAligned ==
  /\ \A r \in tracking :
       /\ r.minute_window % MinuteMs = 0
       /\ r.hour_window % HourMs = 0
       /\ r.day_window % DayMs = 0
  /\ \A p \in Procs :
       Allowed(p) =>
         \E r \in RowOf(p) :
           /\ r.minute_window = rl[p].minuteWindow
           /\ r.hour_window = rl[p].hourWindow
           /\ r.day_window = rl[p].dayWindow
           /\ LogicallyReset(p, "minute_window", rl[p].minuteWindow) => r.minute_count = 1
           /\ LogicallyReset(p, "hour_window", rl[p].hourWindow) => r.hour_count = 1
           /\ LogicallyReset(p, "day_window", rl[p].dayWindow) => r.day_count = 1

\* a call admitted in a new minute of the same hour, at an instant that is
\* not a whole minute
C31_Witness ==
  \E p \in Procs : \E r \in RowOf(p) :
    /\ Allowed(p)
    /\ LogicallyReset(p, "minute_window", rl[p].minuteWindow)
    /\ ~LogicallyReset(p, "hour_window", rl[p].hourWindow)
    /\ rl[p].lastRequestAt % MinuteMs # 0
    /\ r.minute_window = rl[p].minuteWindow
    /\ r.minute_count = 1
    /\ r.hour_count = 2

\* ---- what a decision carries

CeilingsOf(p) ==
  <<rl[p].config.requests_per_minute, rl[p].config.requests_per_hour, rl[p].config.requests_per_day>>

EffectiveCounts(p) == <<rl[p].minuteCount, rl[p].hourCount, rl[p].dayCount>>

\* the starts of the windows that follow the ones the counts were compared in
NextWindows(p) ==
  <<rl[p].minuteWindow + MinuteMs, rl[p].hourWindow + HourMs, rl[p].dayWindow + DayMs>>

RemainingAsPrescribed(p) ==
  \A g \in 1..3 :
    /\ Denied(p) =>
         rl[p].result.remaining[g] =
           (IF CeilingsOf(p)[g] - EffectiveCounts(p)[g] > 0
            THEN CeilingsOf(p)[g] - EffectiveCounts(p)[g] ELSE 0)
    /\ Allowed(p) =>
         /\ rl[p].result.remaining[g] = CeilingsOf(p)[g] - (EffectiveCounts(p)[g] + 1)
         /\ rl[p].result.remaining[g] >= 0

\* C32: a Denied decision carries per granularity the ceiling minus the
\* effective count, clamped at zero, and as reset the start of the window
\* after the one the count was compared in; an Allowed decision carries the
\* ceiling minus the incremented count, which is not negative.
C32_DecisionCarriesRemainingAndReset ==
  \A p \in Procs :
    /\ RemainingAsPrescribed(p)
    /\ Denied(p) => rl[p].result.reset = NextWindows(p)

\* ---- the first call of a credential

\* the call of p has selected and found no row
FoundNoRow(p) ==
  /\ pc[p] \in {"rl_retryEnd", "rl_retryNow", "rl_stamp", "rl_upsert", "rl_reset", "rl_done"}
  /\ rl[p].seen = {}

CeilingsAtLeastOne(p) == \A g \in 1..3 : CeilingsOf(p)[g] >= 1

\* the call of p is the first of its credential: all counts are zero, it is
\* not denied when every ceiling is at least 1, and once admitted the row
\* exists with counts 1 and the window starts the call computed
FirstCallAdmitted(p) ==
  FoundNoRow(p) =>
    /\ EffectiveCounts(p) = <<0, 0, 0>>
    /\ CeilingsAtLeastOne(p) =>
         /\ pc[p] \in {"rl_stamp", "rl_upsert", "rl_reset", "rl_done"}
         /\ rl[p].result.allowed # "denied"
         /\ pc[p] \in {"rl_reset", "rl_done"} =>
              /\ rl[p].result.allowed = "allowed"
              /\ RowOf(p) =
                   {[identifier |-> rl[p].apiKeyId, identifier_type |-> "api_key",
                     minute_window |-> rl[p].minuteWindow, minute_count |-> 1,
                     hour_window |-> rl[p].hourWindow, hour_count |-> 1,
                     day_window |-> rl[p].dayWindow, day_count |-> 1,
                     last_request_at |-> rl[p].lastRequestAt]}

\* the select of a credential without a row finds no row, and the windows
\* are those of the clock when each was computed
FirstCallSteps(p) ==
  /\ (RlSelect(p) /\ RowOf(p) = {}) => rl'[p].seen = {}
  /\ RlMinuteWindow(p) => (rl'[p].minuteWindow <= now /\ now < rl'[p].minuteWindow + MinuteMs)
  /\ RlHourWindow(p) => (rl'[p].hourWindow <= now /\ now < rl'[p].hourWindow + HourMs)
  /\ RlDayWindow(p) => (rl'[p].dayWindow <= now /\ now < rl'[p].dayWindow + DayMs)

\* C33: the first call for a credential that has no tracking row counts zero
\* in all three windows, is admitted when every ceiling is at least 1, and
\* creates the row with the three counts 1 and the current window starts.
C33_FirstCallCreatesRow ==
  /\ [](\A p \in Procs : FirstCallAdmitted(p))
  /\ [][\A p \in Procs : FirstCallSteps(p)]_vars

\* a first call admitted after the first minute, its row created
C33_Witness ==
  \E p \in Procs :
    /\ Allowed(p)
    /\ rl[p].seen = {}
    /\ rl[p].minuteWindow > 0
    /\ \E r \in RowOf(p) :
         /\ r.minute_count = 1 /\ r.hour_count = 1 /\ r.day_count = 1
         /\ r.minute_window = rl[p].minuteWindow

\* ---- increments persisted

\* C34: once the calls have returned, the minute count stored in a tracking
\* row equals the number of calls that were Allowed in the minute window the
\* row stores: every Allowed decision has its increment in the store.
C34_StoredCountIsAdmittedCount ==
  Quiescent =>
    \A r \in tracking : r.minute_count = Count(admitted, r.minute_window)

\* ---- the three counts of a row

\* C35: in every tracking row the minute count is at most the hour count and
\* the hour count at most the day count.
C35_CountsNested ==
  \A r \in tracking : r.minute_count <= r.hour_count /\ r.hour_count <= r.day_count

\* ---- the range of the retry-after

\* C36: the retry-after of a Denied decision is at least 1 second and at most
\* the length in seconds of the granularity it was computed from.
C36_RetryAfterInRange ==
  \A p \in Procs :
    Denied(p) =>
      /\ rl[p].result.retryAfter >= 1
      /\ rl[p].result.retryAfter <= WindowLen(rl[p].retryFrom) \div MsPerSecond

\* ---- revocation and authentication

\* the rows of the store that carry the digest of the key p presents
StoredFor(p) == {r \in Rows(api_keys) : r.key_hash = hashApiKey(va[p].apiKey)}

\* revoke has answered success for the key it named
RevokeSucceeded(p) == pc[p] = "km_done" /\ km[p].op = "revoke" /\ km[p].status = 200

\* the validation of p has read its row
PastLookup(p) == pc[p] \in {"va_check", "va_deactivate", "va_touch", "va_done"} /\ va[p].data # {}

\* C37: a revoke that answered success has left the credential inactive and
\* revoked; a validation whose lookup reads the store after that update reads
\* the revoked row and never answers valid; a valid answer for a credential
\* that is revoked in the store comes from a lookup made before the update.
C37_RevokedKeyRejected ==
  /\ [](\A p \in Procs :
          RevokeSucceeded(p) =>
            /\ ~api_keys[km[p].keyId].is_active
            /\ api_keys[km[p].keyId].revoked_at # NoTime)
  /\ [][\A p \in Procs :
          (VaLookup(p) /\ \E r \in StoredFor(p) : r.revoked_at # NoTime)
            => (va'[p].data # {} => TheRow(va'[p].data).revoked_at # NoTime)]_vars
  /\ [](\A p \in Procs :
          (PastLookup(p) /\ TheRow(va[p].data).revoked_at # NoTime)
            => va[p].result.status # "valid")
  /\ [](\A p \in Procs :
          (/\ pc[p] = "va_done"
           /\ va[p].result.status = "valid"
           /\ api_keys[va[p].result.apiKeyId].revoked_at # NoTime)
          => /\ va[p].storeAtLookup[va[p].result.apiKeyId].is_active
             /\ va[p].storeAtLookup[va[p].result.apiKeyId].revoked_at = NoTime)

\* revoke has answered success and a validation that looked the key up
\* afterwards has failed
C37_Witness ==
  \E p, q \in Procs :
    /\ RevokeSucceeded(q)
    /\ pc[p] = "va_done"
    /\ va[p].data # {}
    /\ TheRow(va[p].data).id = km[q].keyId
    /\ TheRow(va[p].data).revoked_at # NoTime
    /\ va[p].result.status = "invalid"

\* ---- the slot of an admitted request

\* the request of p was admitted and is at or past the decision
AdmittedRequest(p) ==
  /\ pc[p] \in {"rl_done", "gw_json", "gw_submit", "gw_finalize", "gw_respond", "gw_done"}
  /\ rl[p].result.allowed = "allowed"

\* C38: from its Allowed decision to its return, whatever the handler answers,
\* an admitted request leaves the tracking row as the decision stored it: the
\* three counts are the effective counts plus one, and no later step of the
\* request writes the tracking table.
C38_AdmittedSlotKept ==
  /\ [](\A p \in Procs :
          AdmittedRequest(p) =>
            \E r \in RowOf(p) :
              /\ r.minute_count = rl[p].minuteCount + 1
              /\ r.hour_count = rl[p].hourCount + 1
              /\ r.day_count = rl[p].dayCount + 1)
  /\ [][\A p \in Procs :
          (AdmittedRequest(p) /\ pc'[p] # pc[p]) => tracking' = tracking]_vars
  /\ [][\A r \in tracking : \A q \in tracking' :
          (q.identifier = r.identifier /\ q.minute_window = r.minute_window)
            => q.minute_count >= r.minute_count]_vars

\* admitted requests answered for a body that is not JSON, for a payload the
\* collaborator rejected, or with an internal error, the row still counting them
C38_Witness ==
  \E p \in Procs : \E r \in RowOf(p) :
    /\ AdmittedRequest(p)
    /\ pc[p] = "gw_done"
    /\ \/ gw[p].response.error = "invalid_json"
       \/ gw[p].submitted = "validation_error"
       \/ gw[p].submitted = "thrown"
    /\ r.minute_count = rl[p].minuteCount + 1

\* ---- labels of keys that are no longer active

\* a create of an authenticated professional below the quota has answered
CreateBelowQuotaDone(p) ==
  /\ pc[p] = "km_done"
  /\ km[p].op = "create"
  /\ km[p].professionalId # 0
  /\ km[p].count < MaxActiveKeys
  /\ km[p].error # "quota"

\* the label of the create of p was carried, when the create began, by keys
\* of the professional none of which was active
CarriedByInactiveOnly(p) ==
  /\ km[p].name # 0
  /\ ~km[p].carried
  /\ \E i \in 1..km[p].lenAtStart :
       /\ api_keys[i].professional_id = km[p].professionalId
       /\ api_keys[i].name = Label(km[p].name)
       /\ ~api_keys[i].is_active

\* C39: a create with a label that only inactive keys of the professional
\* carry, made with fewer than 5 active keys, succeeds.
C39_InactiveLabelReusable ==
  \A p \in Procs :
    (CreateBelowQuotaDone(p) /\ CarriedByInactiveOnly(p)) => km[p].status = 201

\* C40: a create without a label, made with fewer than 5 active keys,
\* succeeds, also when the professional already holds a key created without
\* a label on the same day.
C40_UnlabelledCreateSucceeds ==
  \A p \in Procs :
    (CreateBelowQuotaDone(p) /\ km[p].name = 0) => km[p].status = 201

====
